---- MODULE Spec2Model ----
(***************************************************************************)
(* Model of the imdb-rs search service: the query composer and request     *)
(* handlers of src/api/handlers.rs, the relevance scorer of                *)
(* src/api/scoring.rs and the response records of src/api/types.rs.        *)
(*                                                                         *)
(* Representation.                                                         *)
(*  - Option<T> is a sequence: <<>> is None, <<v>> is Some(v).             *)
(*  - A String is a sequence of one-character strings, so that trim,       *)
(*    to_lowercase, starts_with, contains and split are computed.          *)
(*  - f64 quantities of the scorer are fixed-point integers in units of    *)
(*    1/Scale; ratings are in tenths (the precision of the source data).   *)
(***************************************************************************)
EXTENDS Integers, Sequences, FiniteSets, TLC

VARIABLES
    now,        \* wall-clock year, read by the scorer through Utc::now()
    titleDocs,  \* the title index snapshot served by AppState.title_index
    nameDocs,   \* the person index snapshot served by AppState.name_index
    request,    \* the request being served, <<>> when none is in flight
    response,   \* the handler's result for `request`, <<>> when none
    trace,      \* what the handler did with the engine and the scorer
    prev,       \* previous direct call of compute_title_relevance_score
    call,       \* latest direct call of compute_title_relevance_score
    source,     \* the dataset files the indexer reads
    disk,       \* the two index directories under config.index_dir
    boot,       \* position of prepare_indexes in the starting process
    inflight,   \* the search_titles calls in progress, one per worker task
    startup     \* prepare_indexes: its position, the lookups it has loaded,
                \* the files it has read and the error it returned

vars == <<now, titleDocs, nameDocs, request, response, trace, prev, call,
          source, disk, boot, inflight, startup>>

None == <<>>
Some(v) == <<v>>
IsSome(o) == o # <<>>
Unwrap(o) == o[1]
UnwrapOr(o, d) == IF o = <<>> THEN d ELSE o[1]

Max(a, b) == IF a >= b THEN a ELSE b
Min(a, b) == IF a <= b THEN a ELSE b
Clamp(x, lo, hi) == Min(Max(x, lo), hi)

(***************************************************************************)
(* Strings                                                                 *)
(***************************************************************************)
UPPER == <<"A","B","C","D","E","F","G","H","I","J","K","L","M",
           "N","O","P","Q","R","S","T","U","V","W","X","Y","Z">>
LOWER == <<"a","b","c","d","e","f","g","h","i","j","k","l","m",
           "n","o","p","q","r","s","t","u","v","w","x","y","z">>
DIGITS == {"0","1","2","3","4","5","6","7","8","9"}

\* char::to_lowercase on the ASCII letters of the modelled texts
ToLowerChar(c) ==
    IF \E i \in 1..26 : UPPER[i] = c
    THEN LOWER[CHOOSE i \in 1..26 : UPPER[i] = c]
    ELSE c

\* str::to_lowercase
ToLowercase(s) == [i \in 1..Len(s) |-> ToLowerChar(s[i])]

\* char::is_alphanumeric
IsAlphanumeric(c) ==
    \/ \E i \in 1..26 : UPPER[i] = c \/ LOWER[i] = c
    \/ c \in DIGITS

IsWhitespace(c) == c \in {" ", "\t", "\n"}

RECURSIVE TrimStart(_)
TrimStart(s) ==
    IF s # <<>> /\ IsWhitespace(Head(s)) THEN TrimStart(Tail(s)) ELSE s

RECURSIVE TrimEnd(_)
TrimEnd(s) ==
    IF s # <<>> /\ IsWhitespace(s[Len(s)])
    THEN TrimEnd(SubSeq(s, 1, Len(s) - 1))
    ELSE s

\* str::trim
Trim(s) == TrimEnd(TrimStart(s))

\* str::starts_with
StartsWith(h, n) == Len(n) <= Len(h) /\ SubSeq(h, 1, Len(n)) = n

\* str::contains
Contains(h, n) ==
    \E i \in 1..(Len(h) - Len(n) + 1) : SubSeq(h, i, i + Len(n) - 1) = n

\* haystack.split(|c| !c.is_alphanumeric()): the pieces between separators,
\* empty pieces included
RECURSIVE SplitFrom(_, _, _)
SplitFrom(s, i, cur) ==
    IF i > Len(s) THEN <<cur>>
    ELSE IF IsAlphanumeric(s[i]) THEN SplitFrom(s, i + 1, Append(cur, s[i]))
    ELSE <<cur>> \o SplitFrom(s, i + 1, <<>>)

SplitWords(s) == SplitFrom(s, 1, <<>>)

(***************************************************************************)
(* Fixed-point arithmetic for the f64 formulas of the scorer               *)
(***************************************************************************)
Scale == 10000

RECURSIVE Log2Floor(_)
Log2Floor(n) == IF n < 2 THEN 0 ELSE 1 + Log2Floor(n \div 2)

RECURSIVE Pow2(_)
Pow2(k) == IF k = 0 THEN 1 ELSE 2 * Pow2(k - 1)

\* ln(n) * Scale for an integer n >= 1:
\* n = 2^k * m, ln(n) = k ln 2 + 2 atanh((m - 1) / (m + 1)), m in [1, 2)
LnInt(n) ==
    LET k  == Log2Floor(n)
        sh == IF k > 15 THEN Pow2(k - 15) ELSE 1
        nn == n \div sh
        pp == Pow2(k) \div sh
        z  == ((nn - pp) * Scale + (nn + pp) \div 2) \div (nn + pp)
        z2 == (z * z) \div Scale
        a  == Scale \div 5 + z2 \div 7
        b  == Scale \div 3 + (z2 * a) \div Scale
        c  == Scale + (z2 * b) \div Scale
    IN  (k * 693147) \div 100 + (2 * z * c) \div Scale

\* f64::ln of a fixed-point argument x / Scale
Ln(x) == LnInt(x) - LnInt(Scale)

\* f64::ln_1p of an integer-valued argument
Ln1p(v) == LnInt(v + 1)

\* (a * b) / c without leaving 32 bits
MulDiv(a, b, c) == (a \div c) * b + ((a % c) * b) \div c

(***************************************************************************)
(* Relevance scorer (src/api/scoring.rs)                                   *)
(***************************************************************************)
GLOBAL_AVG == 67          \* 6.7, in tenths like the ratings
M_PRIOR == 12000
VMAX == 2000000
SERIES_TYPES == {"tvSeries", "tvMiniSeries", "tvEpisode"}

\* a classifier that takes a bare substring for a match whatever the
\* length of the needle
TitleMatchClass_AnySubstring(haystack, needle) ==
    LET contains_word == \E k \in 1..Len(SplitWords(haystack)) :
                             SplitWords(haystack)[k] = needle
        is_short  == Len(needle) <= 3
    IN  IF haystack = needle
        THEN (IF is_short THEN "exact_short" ELSE "exact_long")
        ELSE IF is_short /\ contains_word THEN "word"
        ELSE IF StartsWith(haystack, needle) THEN "prefix"
        ELSE IF Contains(haystack, needle) THEN "substring"
        ELSE IF is_short THEN "short_miss"
        ELSE "miss"

\* step 2: the title-match class of a candidate for a non-empty needle
TitleMatchClass(haystack, needle) ==
    LET contains_word == \E k \in 1..Len(SplitWords(haystack)) :
                             SplitWords(haystack)[k] = needle
        is_exact  == haystack = needle
        is_prefix == StartsWith(haystack, needle)
        is_substr == Contains(haystack, needle)
        is_short  == Len(needle) <= 3
    IN  IF is_exact THEN (IF is_short THEN "exact_short" ELSE "exact_long")
        ELSE IF is_short /\ contains_word THEN "word"
        ELSE IF is_prefix THEN "prefix"
        ELSE IF is_substr /\ ~is_short THEN "substring"
        ELSE IF is_short THEN "short_miss"
        ELSE "miss"

\* an exact match that gets the bonus but no floor under the base
BoostBase_NoFloor(class) == 0

\* the value `base` is floored at for an exact match (0 = no floor)
BoostBase(class) ==
    CASE class = "exact_short" -> 45000
      [] class = "exact_long"  -> 38000
      [] OTHER                 -> 0

\* the additive title_bonus of each class
TitleBonus(class) ==
    CASE class = "exact_short" -> 70000
      [] class = "exact_long"  -> 60000
      [] class = "word"        -> 12000
      [] class = "prefix"      -> 9000
      [] class = "substring"   -> 4000
      [] class = "short_miss"  -> 0 - 8000
      [] class = "miss"        -> 0 - 3000
      [] OTHER                 -> 0

\* the class used by the scorer: "none" when no query or an empty needle
MatchClassOf(result, query_lower) ==
    IF query_lower = None THEN "none"
    ELSE LET needle == ToLowercase(Trim(Unwrap(query_lower)))
         IN  IF needle = <<>> THEN "none"
             ELSE TitleMatchClass(ToLowercase(result.primary_title), needle)

\* step 3: Bayesian weighted rating, mapped to ~[0..3]
RatingComponent(rating, votes) ==
    LET wr == IF votes > 0
              THEN MulDiv(votes * rating + M_PRIOR * GLOBAL_AVG, Scale \div 10,
                          votes + M_PRIOR)
              ELSE GLOBAL_AVG * (Scale \div 10)
    IN  (wr * 3) \div 10

\* step 3: log-normalized popularity, ~[0..2.2]
PopularityComponent(votes) ==
    IF votes > 0
    THEN (Ln1p(votes) * 2200) \div (Ln1p(VMAX) \div 10)
    ELSE 0

\* step 4: the year the recency tilt is computed from
RecencyYear(result) ==
    IF result.title_type # None /\ Unwrap(result.title_type) \in SERIES_TYPES
       /\ result.end_year = None
    THEN now
    ELSE IF result.end_year # None THEN Unwrap(result.end_year)
    ELSE UnwrapOr(result.start_year, 0)

\* a recency tilt without the clamp
YearComponent_Unclamped(recency_year) ==
    IF recency_year = 0 THEN 0 ELSE ((recency_year - 2012) * Scale) \div 90

YearComponent(recency_year) ==
    IF recency_year = 0 THEN 0
    ELSE Clamp(((recency_year - 2012) * Scale) \div 90, 0 - 1000, 1500)

\* a scorer without cold-start dampening
ColdStartFactor_None(votes) == 10

\* step 5: cold-start dampening factor, in tenths
ColdStartFactor(votes) ==
    IF votes < 50 THEN 2
    ELSE IF votes < 500 THEN 5
    ELSE IF votes < 2000 THEN 8
    ELSE 10

compute_title_relevance_score(base_score, result, query_lower) ==
    LET class    == MatchClassOf(result, query_lower)
        base     == Max(Ln(Max(base_score, 0) + Scale), BoostBase(class))
        rating   == UnwrapOr(result.average_rating, 50)
        votes    == UnwrapOr(result.num_votes, 0)
        combined == Scale + RatingComponent(rating, votes)
                    + PopularityComponent(votes)
                    + YearComponent(RecencyYear(result))
                    + TitleBonus(class)
        damped   == (combined * ColdStartFactor(votes)) \div 10
        floored  == Max(damped, 500)
    IN  MulDiv(floored, base, Scale)

(***************************************************************************)
(* The index snapshots.  A title document holds the stored fields read by  *)
(* document_to_title_result and `lex`, the lexical (BM25) score the        *)
(* engine's query parser and fuzzy matcher give the document for a         *)
(* lower-cased free text; a text outside DOMAIN lex does not match.        *)
(***************************************************************************)
UP == <<"u","p">>
UPSTART == <<"u","p","s","t","a","r","t">>
KEAN == <<"k","e","a","n">>

TitleDoc(id, type, title, sy, ey, gs, rating, votes, lx) ==
    [tconst |-> id, title_type |-> type, primary_title |-> title,
     original_title |-> None, start_year |-> sy, end_year |-> ey,
     genres |-> gs, average_rating |-> rating, num_votes |-> votes,
     lex |-> lx]

\* candidates of tests/scoring.rs plus documents with absent fields
TitleCorpus ==
    << TitleDoc("tt_exact", "movie", <<"U","p">>, Some(2009), Some(2009),
                << <<"A","n","i","m","a","t","i","o","n">> >>,
                Some(83), Some(1201529), UP :> 7500),
       TitleDoc("tt_partial", "movie", <<"N","o"," ","W","a","y"," ","U","p">>,
                Some(2024), Some(2024),
                << <<"A","c","t","i","o","n">>, <<"S","c","i","-","F","i">> >>,
                Some(46), Some(11321), UP :> 50000),
       TitleDoc("tt_series", "tvSeries", <<"U","p","s","t","a","r","t">>,
                Some(1971), None,
                << <<"D","r","a","m","a">> >>,
                Some(84), Some(1500), UP :> 30000),
       TitleDoc("tt_short", "short", <<"C","u","p">>, None, None,
                <<>>, None, None, UP :> 10000) >>

NameDoc(id, name, by, dy, prof, known, lx) ==
    [nconst |-> id, primary_name |-> name, birth_year |-> by,
     death_year |-> dy, primary_profession |-> prof,
     known_for_titles |-> known, lex |-> lx]

\* the person of tests/api_endpoints.rs plus documents with absent fields
NameCorpus ==
    << NameDoc("nm0000206", <<"K","e","a","n","u"," ","R","e","e","v","e","s">>,
               Some(1964), None,
               << <<"a","c","t","o","r",",","p","r","o","d","u","c","e","r">> >>,
               << <<"t","t","1",",","t","t","2">> >>, KEAN :> 30000),
       NameDoc("nm2", <<"K","e","a","n","e">>, Some(1890), Some(1960),
               << <<"d","i","r","e","c","t","o","r">> >>,
               <<>>, KEAN :> 20000),
       NameDoc("nm3", <<"A","n","n","a">>, None, None, <<>>, <<>>, <<>>) >>

(***************************************************************************)
(* The engine: terms, clauses, matching and collectors (tantivy)           *)
(***************************************************************************)
\* the terms a TEXT field indexes for its stored values: the default
\* tokenizer splits on non-alphanumerics and lower-cases
RECURSIVE TermsOfValues(_, _)
TermsOfValues(values, i) ==
    IF i > Len(values) THEN {}
    ELSE LET ws == SplitWords(values[i])
         IN  ({ ToLowercase(ws[k]) : k \in 1..Len(ws) } \ {<<>>})
             \cup TermsOfValues(values, i + 1)

\* the indexed terms of a document's field: a STRING field indexes the raw
\* value, a TEXT field its tokens
IndexedTerms(doc, field) ==
    CASE field = "tconst"            -> {doc.tconst}
      [] field = "nconst"            -> {doc.nconst}
      [] field = "titleType"         -> {doc.title_type}
      [] field = "genres"            -> TermsOfValues(doc.genres, 1)
      [] field = "primaryProfession" -> TermsOfValues(doc.primary_profession, 1)

\* the value of a numeric fast field, None when the document has none
NumericValue(doc, field) ==
    CASE field = "startYear"     -> doc.start_year
      [] field = "endYear"       -> doc.end_year
      [] field = "averageRating" -> doc.average_rating
      [] field = "numVotes"      -> doc.num_votes
      [] field = "birthYear"     -> doc.birth_year

\* query clauses; every clause has the same shape
TextClause(text) ==
    [kind |-> "text", field |-> "", text |-> text, values |-> <<>>,
     lower |-> None, upper |-> None]
TermQuery(field, value) ==
    [kind |-> "term", field |-> field, text |-> <<>>, values |-> <<value>>,
     lower |-> None, upper |-> None]
\* BooleanQuery of Occur::Should term queries on one field
ShouldGroup(field, vals) ==
    [kind |-> "should", field |-> field, text |-> <<>>, values |-> vals,
     lower |-> None, upper |-> None]
\* RangeQuery::new(lower, upper): Some(v) is Bound::Included(v), None is
\* Bound::Unbounded
RangeQuery(field, lo, hi) ==
    [kind |-> "range", field |-> field, text |-> <<>>, values |-> <<>>,
     lower |-> lo, upper |-> hi]

ClauseMatches(doc, c) ==
    CASE c.kind = "text"   -> ToLowercase(c.text) \in DOMAIN doc.lex
      [] c.kind = "term"   -> c.values[1] \in IndexedTerms(doc, c.field)
      [] c.kind = "should" -> \E i \in 1..Len(c.values) :
                                  c.values[i] \in IndexedTerms(doc, c.field)
      [] c.kind = "range"  ->
            LET v == NumericValue(doc, c.field)
            IN  /\ v # None
                /\ c.lower # None => Unwrap(c.lower) <= Unwrap(v)
                /\ c.upper # None => Unwrap(v) <= Unwrap(c.upper)

\* the score a clause contributes: the lexical score for free text, a
\* constant for a filter clause
ClauseScore(doc, c) ==
    IF c.kind = "text" THEN doc.lex[ToLowercase(c.text)] ELSE Scale

RECURSIVE SumScores(_, _, _)
SumScores(doc, cs, i) ==
    IF i > Len(cs) THEN 0 ELSE ClauseScore(doc, cs[i]) + SumScores(doc, cs, i + 1)

\* match clauses.len() { 0 => AllQuery, 1 => the clause, _ => BooleanQuery }
CombinedQuery(clauses) ==
    [kind |-> CASE Len(clauses) = 0 -> "all"
                [] Len(clauses) = 1 -> "single"
                [] OTHER            -> "boolean",
     must |-> clauses]

QueryMatches(doc, q) == \A i \in 1..Len(q.must) : ClauseMatches(doc, q.must[i])

QueryScore(doc, q) == IF q.kind = "all" THEN Scale ELSE SumScores(doc, q.must, 1)

\* addresses of the matching documents of a snapshot
MatchingDocs(docs, q) == { a \in 1..Len(docs) : QueryMatches(docs[a], q) }

\* hit h1 is collected before hit h2: better key (larger when desc), ties
\* by ascending address
HitBefore(h1, h2, desc) ==
    \/ (IF desc THEN h1[1] > h2[1] ELSE h1[1] < h2[1])
    \/ h1[1] = h2[1] /\ h1[2] < h2[2]

\* Vec::truncate
Truncate(seq, n) == SubSeq(seq, 1, Min(n, Len(seq)))

\* Iterator::collect: the sequence with every element computed
Collect(seq) == seq \o <<>>

\* the hits <<key, addr>> in collection order, cut to the n best
SortedHits(hitset, desc, n) ==
    LET ranked == { <<Cardinality({ g \in hitset : HitBefore(g, h, desc) }), h>> :
                      h \in hitset }
    IN  Collect([i \in 1..n |-> (CHOOSE r \in ranked : r[1] = i - 1)[2]])

\* a top-k collector: the `limit` best addresses of `matching` by `key`
TopDocs(matching, key, desc, limit) ==
    SortedHits({ <<key[a], a>> : a \in matching }, desc,
               Min(limit, Cardinality(matching)))

\* the sort key of a document without a value in the fast field: below
\* every stored value
MissingFastValue == 0 - 1

\* searcher.search(&query, &TopDocs::with_limit(limit))
SearchByScore(docs, q, limit) ==
    LET m == MatchingDocs(docs, q)
    IN  TopDocs(m, [a \in m |-> QueryScore(docs[a], q)], TRUE, limit)

\* searcher.search(&query, &TopDocs::with_limit(limit).order_by_fast_field(..))
SearchByFastField(docs, q, field, desc, limit) ==
    LET m == MatchingDocs(docs, q)
    IN  TopDocs(m, [a \in m |-> UnwrapOr(NumericValue(docs[a], field),
                                         MissingFastValue)], desc, limit)

(***************************************************************************)
(* Responses (src/api/types.rs)                                            *)
(***************************************************************************)
\* ApiError::bad_request / internal / not_found, as rendered by into_response
ApiError(status, message) ==
    [status |-> status, body |-> "error", message |-> message, results |-> <<>>]
BadRequest(message) == ApiError(400, message)
\* an internal error that carries the engine's error text to the client
Internal_WithDetail == ApiError(500, "internal server error: an IO error occurred")

Internal == ApiError(500, "internal server error")

\* Ok(Json(..)): body is "list" for a search response, "item" for a lookup
Ok(body, results) ==
    [status |-> 200, body |-> body, message |-> "", results |-> results]

\* a miss answered with an empty success
NotFound_EmptyList(message) == Ok("list", <<>>)

NotFound(message) == ApiError(404, message)

\* what a handler did: the query it composed, the number of engine
\* searches it ran, the engine's hits and the number of scorer calls
Trace(q, searches, hits, scored) ==
    [query |-> q, searches |-> searches, hits |-> hits, scorer_calls |-> scored]
NoTrace == Trace(None, 0, <<>>, 0)

\* utils::document_to_title_result
document_to_title_result(doc) ==
    [tconst |-> doc.tconst,
     primary_title |-> doc.primary_title,
     original_title |-> doc.original_title,
     title_type |-> Some(doc.title_type),
     start_year |-> doc.start_year,
     end_year |-> doc.end_year,
     genres |-> IF doc.genres = <<>> THEN None ELSE Some(doc.genres),
     average_rating |-> doc.average_rating,
     num_votes |-> doc.num_votes,
     score |-> None,
     sort_value |-> None]

\* entry.split(',').map(trim).filter(non-empty), over all stored entries
RECURSIVE SplitCommas(_, _, _)
SplitCommas(s, i, cur) ==
    IF i > Len(s) THEN (IF Trim(cur) = <<>> THEN <<>> ELSE <<Trim(cur)>>)
    ELSE IF s[i] = ","
         THEN (IF Trim(cur) = <<>> THEN <<>> ELSE <<Trim(cur)>>)
              \o SplitCommas(s, i + 1, <<>>)
         ELSE SplitCommas(s, i + 1, Append(cur, s[i]))

RECURSIVE FlatSplit(_, _)
FlatSplit(entries, i) ==
    IF i > Len(entries) THEN <<>>
    ELSE SplitCommas(entries[i], 1, <<>>) \o FlatSplit(entries, i + 1)

\* utils::document_to_name_result
document_to_name_result(doc) ==
    [nconst |-> doc.nconst,
     primary_name |-> doc.primary_name,
     birth_year |-> doc.birth_year,
     death_year |-> doc.death_year,
     primary_profession |->
        IF doc.primary_profession = <<>> THEN None
        ELSE Some(FlatSplit(doc.primary_profession, 1)),
     known_for_titles |->
        IF doc.known_for_titles = <<>> THEN None
        ELSE Some(FlatSplit(doc.known_for_titles, 1)),
     score |-> None]

(***************************************************************************)
(* Query composition and handlers (src/api/handlers.rs)                    *)
(***************************************************************************)
DEFAULT_LIMIT == 10
MIN_LIMIT == 1
MAX_LIMIT == 50
DEFAULT_YEAR_MIN == 1980
default_title_types == <<"movie", "tvSeries">>

\* free texts the engine's query parser rejects
UnparsableTexts == { <<"^">> }

\* a limit with the lower clamp only
EffectiveLimit_NoCap(limit) == Max(UnwrapOr(limit, DEFAULT_LIMIT), MIN_LIMIT)

\* params.limit.unwrap_or(10).clamp(1, 50)
EffectiveLimit(limit) == Clamp(UnwrapOr(limit, DEFAULT_LIMIT), MIN_LIMIT, MAX_LIMIT)

\* one clause when either bound is given, none otherwise
OptionalRange(field, lo, hi) ==
    IF lo # None \/ hi # None THEN <<RangeQuery(field, lo, hi)>> ELSE <<>>

\* one required term query per non-empty value
RECURSIVE MustTerms(_, _, _)
MustTerms(field, vals, i) ==
    IF i > Len(vals) THEN <<>>
    ELSE (IF vals[i] = <<>> THEN <<>> ELSE <<TermQuery(field, vals[i])>>)
         \o MustTerms(field, vals, i + 1)

\* the category clause of search_titles
TitleTypeClause(title_type) ==
    LET title_types == IF title_type # None /\ Unwrap(title_type) # ""
                       THEN <<Unwrap(title_type)>>
                       ELSE default_title_types
    IN  IF Len(title_types) = 1
        THEN <<TermQuery("titleType", title_types[1])>>
        ELSE <<ShouldGroup("titleType", title_types)>>

\* the start-year clause of search_titles
StartYearClause(start_year_min, start_year_max) ==
    LET year_min == UnwrapOr(start_year_min, DEFAULT_YEAR_MIN)
        year_max == start_year_max
    IN  IF year_min # 0 \/ year_max # None
        THEN <<RangeQuery("startYear", Some(year_min), year_max)>>
        ELSE <<>>

\* the clauses search_titles pushes, in order
TitleClauses(params) ==
    LET query_text == Trim(UnwrapOr(params.query, <<>>))
    IN  (IF query_text # <<>> THEN <<TextClause(query_text)>> ELSE <<>>)
        \o TitleTypeClause(params.title_type)
        \o StartYearClause(params.start_year_min, params.start_year_max)
        \o OptionalRange("endYear", params.end_year_min, params.end_year_max)
        \o OptionalRange("averageRating", params.min_rating, params.max_rating)
        \o OptionalRange("numVotes", params.min_votes, params.max_votes)
        \o MustTerms("genres", params.genres, 1)

\* a response that keeps the order of the engine's hits
SortByScoreDesc_EngineOrder(results) == results

\* results.sort_by(|a, b| b.score.partial_cmp(a.score)): a stable sort,
\* larger score first
SortByScoreDesc(results) ==
    LET n == Len(results)
        before(j, i) ==
            \/ Unwrap(results[j].score) > Unwrap(results[i].score)
            \/ Unwrap(results[j].score) = Unwrap(results[i].score) /\ j < i
        ranked == { <<Cardinality({ j \in 1..n : before(j, i) }), i>> : i \in 1..n }
    IN  Collect([k \in 1..n |-> results[(CHOOSE r \in ranked : r[1] = k - 1)[2]]])

\* the engine search of each sort mode
TitleHits(docs, q, sort_mode, limit) ==
    CASE sort_mode = "relevance"   -> SearchByScore(docs, q, limit)
      [] sort_mode = "rating_desc" -> SearchByFastField(docs, q, "averageRating", TRUE, limit)
      [] sort_mode = "rating_asc"  -> SearchByFastField(docs, q, "averageRating", FALSE, limit)
      [] sort_mode = "votes_desc"  -> SearchByFastField(docs, q, "numVotes", TRUE, limit)
      [] sort_mode = "votes_asc"   -> SearchByFastField(docs, q, "numVotes", FALSE, limit)

\* a result that carries the engine's key as score in every mode
TitleResultOfHit_AlwaysScore(docs, hit, sort_mode, query_lower) ==
    LET result == document_to_title_result(docs[hit[2]])
    IN  IF sort_mode = "relevance"
        THEN [result EXCEPT !.score =
                 Some(compute_title_relevance_score(hit[1], result, query_lower))]
        ELSE [result EXCEPT !.sort_value = Some(hit[1]), !.score = Some(hit[1])]

\* the result built from one hit
TitleResultOfHit(docs, hit, sort_mode, query_lower) ==
    LET result == document_to_title_result(docs[hit[2]])
    IN  IF sort_mode = "relevance"
        THEN [result EXCEPT !.score =
                 Some(compute_title_relevance_score(hit[1], result, query_lower))]
        ELSE [result EXCEPT !.sort_value = Some(hit[1])]

\* search_titles: the response and the trace of one request; `fault` is
\* the engine call that fails, if any
search_titles(docs, params) ==
    LET limit       == EffectiveLimit(params.limit)
        sort_mode   == UnwrapOr(params.sort, "relevance")
        query_text  == Trim(UnwrapOr(params.query, <<>>))
        q           == CombinedQuery(TitleClauses(params))
        query_lower == IF query_text = <<>> THEN None
                       ELSE Some(ToLowercase(query_text))
        hits        == TitleHits(docs, q, sort_mode, limit)
        built       == Collect([i \in 1..Len(hits) |->
                          TitleResultOfHit(docs, hits[i], sort_mode, query_lower)])
        results     == IF sort_mode = "relevance"
                       THEN Truncate(SortByScoreDesc(built), limit)
                       ELSE built
        scored      == IF sort_mode = "relevance" THEN Len(hits) ELSE 0
    IN  IF query_text \in UnparsableTexts
        THEN [response |-> BadRequest("invalid query"), trace |-> NoTrace]
        ELSE IF params.fault = "search"
        THEN [response |-> Internal, trace |-> Trace(Some(q), 1, <<>>, 0)]
        ELSE IF params.fault = "doc" /\ hits # <<>>
        THEN [response |-> Internal, trace |-> Trace(Some(q), 1, hits, 0)]
        ELSE [response |-> Ok("list", results),
              trace |-> Trace(Some(q), 1, hits, scored)]

\* the clauses search_names pushes, in order
NameClauses(params) ==
    LET query_text == Trim(params.query)
    IN  (IF query_text # <<>> THEN <<TextClause(query_text)>> ELSE <<>>)
        \o OptionalRange("birthYear", params.birth_year_min, params.birth_year_max)
        \o MustTerms("primaryProfession", params.primary_profession, 1)

\* has_filters that forgets the upper birth-year bound
HasFilters_NoMax(params) ==
    \/ params.birth_year_min # None
    \/ params.primary_profession # <<>>

\* has_filters of search_names
HasFilters(params) ==
    \/ params.birth_year_min # None
    \/ params.birth_year_max # None
    \/ params.primary_profession # <<>>

\* search_names
search_names(docs, params) ==
    LET query_text  == Trim(params.query)
        has_filters == HasFilters(params)
        limit       == EffectiveLimit(params.limit)
        q           == CombinedQuery(NameClauses(params))
        hits        == SearchByScore(docs, q, limit)
        results     == Collect([i \in 1..Len(hits) |->
                          [document_to_name_result(docs[hits[i][2]])
                              EXCEPT !.score = Some(hits[i][1])]])
    IN  IF query_text = <<>> /\ ~has_filters
        THEN [response |-> BadRequest("provide a query or at least one filter"),
              trace |-> NoTrace]
        ELSE IF query_text \in UnparsableTexts
        THEN [response |-> BadRequest("invalid query"), trace |-> NoTrace]
        ELSE IF params.fault = "search"
        THEN [response |-> Internal, trace |-> Trace(Some(q), 1, <<>>, 0)]
        ELSE IF params.fault = "doc" /\ hits # <<>>
        THEN [response |-> Internal, trace |-> Trace(Some(q), 1, hits, 0)]
        ELSE [response |-> Ok("list", results),
              trace |-> Trace(Some(q), 1, hits, 0)]

\* get_title_by_id
get_title_by_id(docs, params) ==
    LET q    == CombinedQuery(<<TermQuery("tconst", params.id)>>)
        hits == SearchByScore(docs, q, 1)
    IN  IF params.fault = "search"
        THEN [response |-> Internal, trace |-> Trace(Some(q), 1, <<>>, 0)]
        ELSE IF hits # <<>>
        THEN IF params.fault = "doc"
             THEN [response |-> Internal, trace |-> Trace(Some(q), 1, hits, 0)]
             ELSE [response |->
                      Ok("item", <<[document_to_title_result(docs[hits[1][2]])
                                       EXCEPT !.score = Some(hits[1][1])]>>),
                   trace |-> Trace(Some(q), 1, hits, 0)]
        ELSE [response |-> NotFound("title not found"),
              trace |-> Trace(Some(q), 1, hits, 0)]

\* get_name_by_id
get_name_by_id(docs, params) ==
    LET q    == CombinedQuery(<<TermQuery("nconst", params.id)>>)
        hits == SearchByScore(docs, q, 1)
    IN  IF params.fault = "search"
        THEN [response |-> Internal, trace |-> Trace(Some(q), 1, <<>>, 0)]
        ELSE IF hits # <<>>
        THEN IF params.fault = "doc"
             THEN [response |-> Internal, trace |-> Trace(Some(q), 1, hits, 0)]
             ELSE [response |->
                      Ok("item", <<[document_to_name_result(docs[hits[1][2]])
                                       EXCEPT !.score = Some(hits[1][1])]>>),
                   trace |-> Trace(Some(q), 1, hits, 0)]
        ELSE [response |-> NotFound("name not found"),
              trace |-> Trace(Some(q), 1, hits, 0)]

(***************************************************************************)
(* The index build of src/indexer.rs.  A dataset file is a sequence of     *)
(* rows; a row is a record of its columns, <<>> for a column the row does  *)
(* not have (the reader is flexible).                                      *)
(***************************************************************************)
\* the null token of the dataset files
NULL == <<"\\", "N">>

\* an index directory: whether it exists, whether it holds meta.json, and
\* the documents of its last commit
Dir(exists, marker, committed) ==
    [exists |-> exists, marker |-> marker, committed |-> committed]

NoDir == Dir(FALSE, FALSE, <<>>)

NoSource ==
    [basics |-> <<>>, ratings |-> <<>>, names |-> <<>>, akas |-> <<>>,
     principals |-> <<>>, unreadable |-> {}]

\* prepare_indexes has not been entered
NotStarted ==
    [pc |-> "main", name_lookup |-> {}, principals_map |-> {},
     ratings_map |-> {}, aka_map |-> {}, search_titles |-> <<>>,
     read |-> {}, built |-> {}, error |-> ""]

\* the position of a process that has opened both indexes and serves
Opened == [pc |-> "serving", target |-> "names", writer |-> <<>>]

\* the tasks of the runtime that serve requests side by side
Workers == {"a", "b"}

\* a search_titles call in progress: its parameters, the searcher it
\* holds, the engine's hits and the results built so far
Flight(pc, params, searcher, hits, results, acquired) ==
    [pc |-> pc, params |-> params, searcher |-> searcher, hits |-> hits,
     results |-> results, acquired |-> acquired]

Idle == Flight("idle", <<>>, <<>>, <<>>, <<>>, 0)

NoFlights == [w \in Workers |-> Idle]

\* a running service over indexes that were built and committed before
Running ==
    /\ inflight = NoFlights
    /\ startup = NotStarted
    /\ source = NoSource
    /\ disk = [titles |-> Dir(TRUE, TRUE, titleDocs),
               names |-> Dir(TRUE, TRUE, nameDocs)]
    /\ boot = Opened

DigitValue(c) == CHOOSE d \in 0..9 : ToString(d) = c

RECURSIVE DigitsValue(_, _)
DigitsValue(s, acc) ==
    IF s = <<>> THEN acc
    ELSE DigitsValue(Tail(s), acc * 10 + DigitValue(Head(s)))

AllDigits(s) == s # <<>> /\ \A i \in 1..Len(s) : s[i] \in DIGITS

\* str::parse::<i64>: an optional sign, then decimal digits only
ParseInt(s) ==
    LET signed == s # <<>> /\ Head(s) \in {"+", "-"}
        body   == IF signed THEN Tail(s) ELSE s
    IN  IF ~AllDigits(body) THEN None
        ELSE IF signed /\ Head(s) = "-" THEN Some(0 - DigitsValue(body, 0))
        ELSE Some(DigitsValue(body, 0))

\* str::parse::<f64> on the decimal notation of the ratings file (digits
\* with at most one fractional digit); the result is in tenths
ParseDecimal(s) ==
    LET dots == { i \in 1..Len(s) : s[i] = "." }
    IN  IF dots = {} THEN
            (IF AllDigits(s) THEN Some(10 * DigitsValue(s, 0)) ELSE None)
        ELSE LET d    == CHOOSE i \in dots : \A j \in dots : i <= j
                 int  == SubSeq(s, 1, d - 1)
                 frac == SubSeq(s, d + 1, Len(s))
             IN  IF AllDigits(int) /\ Len(frac) = 1 /\ AllDigits(frac)
                 THEN Some(10 * DigitsValue(int, 0) + DigitValue(frac[1]))
                 ELSE None

\* a parser that takes the null token and the empty string for zero
parse_i64_NullIsZero(value) ==
    IF value = None THEN None
    ELSE IF Unwrap(value) = <<>> \/ Unwrap(value) = NULL THEN Some(0)
    ELSE ParseInt(Unwrap(value))

parse_i64(value) ==
    IF value = None THEN None
    ELSE IF Unwrap(value) = <<>> \/ Unwrap(value) = NULL THEN None
    ELSE ParseInt(Unwrap(value))

parse_f64(value) ==
    IF value = None THEN None
    ELSE IF Unwrap(value) = <<>> \/ Unwrap(value) = NULL THEN None
    ELSE ParseDecimal(Unwrap(value))

\* str::split(','): every piece, the empty ones included
RECURSIVE SplitOnComma(_, _, _)
SplitOnComma(s, i, cur) ==
    IF i > Len(s) THEN <<cur>>
    ELSE IF s[i] = "," THEN <<cur>> \o SplitOnComma(s, i + 1, <<>>)
    ELSE SplitOnComma(s, i + 1, Append(cur, s[i]))

\* the ratings lookup after the first i rows of title.ratings: the set of
\* <<tconst, rating, votes>> entries, a later row replacing an earlier one
RECURSIVE load_ratings_map(_, _)
load_ratings_map(rows, i) ==
    IF i = 0 THEN {}
    ELSE LET map    == load_ratings_map(rows, i - 1)
             record == rows[i]
             rating == parse_f64(record.rating)
             votes  == parse_i64(record.votes)
         IN  IF record.tconst = None \/ record.rating = None \/ record.votes = None
             THEN map
             ELSE IF Unwrap(record.tconst) \in {"", "\\N"} THEN map
             ELSE IF rating # None /\ votes # None
             THEN { e \in map : e[1] # Unwrap(record.tconst) }
                  \cup { <<Unwrap(record.tconst), Unwrap(rating), Unwrap(votes)>> }
             ELSE map

\* the document the title loop adds for one row of title.basics, <<>> when
\* the row is skipped
TitleDocOfRow(record, ratings_map) ==
    IF record.tconst = None THEN None
    ELSE IF Unwrap(record.tconst) \in {"", "\\N"} THEN None
    ELSE IF record.primary_title = None THEN None
    ELSE
      LET tconst == Unwrap(record.tconst)
          original_title ==
              IF record.original_title = None THEN None
              ELSE IF Unwrap(record.original_title) \in {NULL, <<>>} THEN None
              ELSE record.original_title
          genres ==
              IF record.genres = None THEN <<>>
              ELSE SelectSeq(SplitOnComma(Unwrap(record.genres), 1, <<>>),
                             LAMBDA g : g # NULL /\ g # <<>>)
          rated == { e \in ratings_map : e[1] = tconst }
          entry == CHOOSE e \in rated : TRUE
      IN  Some([tconst |-> tconst,
                title_type |-> UnwrapOr(record.title_type, ""),
                primary_title |-> Unwrap(record.primary_title),
                original_title |-> original_title,
                start_year |-> parse_i64(record.start_year),
                end_year |-> None,
                genres |-> genres,
                average_rating |-> IF rated = {} THEN None ELSE Some(entry[2]),
                num_votes |-> IF rated = {} THEN None ELSE Some(entry[3]),
                lex |-> <<>>])

\* the document the person loop adds for one row of name.basics
NameDocOfRow(record) ==
    IF record.nconst = None THEN None
    ELSE IF Unwrap(record.nconst) \in {"", "\\N"} THEN None
    ELSE IF UnwrapOr(record.primary_name, <<>>) = <<>> THEN None
    ELSE
      LET primary_profession == UnwrapOr(record.primary_profession, <<>>)
          known_for_titles == UnwrapOr(record.known_for_titles, <<>>)
      IN  Some(NameDoc(Unwrap(record.nconst),
                       Unwrap(record.primary_name),
                       parse_i64(record.birth_year),
                       parse_i64(record.death_year),
                       IF primary_profession = <<>> THEN None
                       ELSE Some(primary_profession),
                       IF known_for_titles = <<>> THEN None
                       ELSE Some(known_for_titles),
                       <<>>))

\* the documents the writer holds after the loop over the rows, in order
RECURSIVE AddedTitleDocs(_, _, _)
AddedTitleDocs(rows, ratings_map, i) ==
    IF i > Len(rows) THEN <<>>
    ELSE TitleDocOfRow(rows[i], ratings_map)
         \o AddedTitleDocs(rows, ratings_map, i + 1)

RECURSIVE AddedNameDocs(_, _)
AddedNameDocs(rows, i) ==
    IF i > Len(rows) THEN <<>>
    ELSE NameDocOfRow(rows[i]) \o AddedNameDocs(rows, i + 1)

TitleRow(tconst, title_type, primary_title, original_title, start_year, end_year, genres) ==
    [tconst |-> tconst, title_type |-> title_type, primary_title |-> primary_title,
     original_title |-> original_title, start_year |-> start_year,
     end_year |-> end_year, genres |-> genres]

RatingRow(tconst, rating, votes) ==
    [tconst |-> tconst, rating |-> rating, votes |-> votes]

NameRow(nconst, primary_name, birth_year, death_year, primary_profession, known_for_titles) ==
    [nconst |-> nconst, primary_name |-> primary_name, birth_year |-> birth_year,
     death_year |-> death_year, primary_profession |-> primary_profession,
     known_for_titles |-> known_for_titles]

\* rows of title.basics: complete rows, a repeated id, null and empty
\* columns, a non-numeric year and a row that stops after its id
BasicsRows ==
    { TitleRow(Some("tt1"), Some("movie"), Some(<<"U","p">>),
             Some(NULL), Some(<<"2","0","0","9">>), Some(NULL),
             Some(<<"W","a","r">>)),
      TitleRow(Some("tt1"), Some("tvSeries"), Some(<<"U","p","s","t","a","r","t">>),
             Some(<<"U","p">>), Some(<<"1","9","7","1">>), Some(<<"1","9","7","5">>),
             Some(<<"W","a","r",",","N","o","i","r">>)),
      TitleRow(Some("tt2"), Some("\\N"), Some(NULL),
             Some(NULL), Some(<<"1","9","x">>), Some(NULL),
             Some(NULL)),
      TitleRow(Some("tt2"), Some("movie"), Some(<<>>),
             Some(<<>>), Some(NULL), Some(<<>>),
             Some(<<"W","a","r",",","\\","N">>)),
      TitleRow(Some("\\N"), Some("movie"), Some(<<"C","u","p">>),
             Some(<<"C","u","p">>), Some(<<"2","0","0","1">>), Some(<<"2","0","0","1">>),
             Some(<<"W","a","r">>)),
      TitleRow(Some("tt3"), None, None,
             None, None, None,
             None) }

\* rows of title.ratings
RatingsRows ==
    { RatingRow(Some("tt1"), Some(<<"8",".","3">>), Some(<<"1","2","0","1","5","2","9">>)),
      RatingRow(Some("tt1"), Some(NULL), Some(<<"1","0">>)),
      RatingRow(Some("tt2"), Some(<<"4",".","6">>), Some(<<"1","1","3","2","1">>)) }

\* rows of name.basics
NamesRows ==
    { NameRow(Some("nm1"), Some(<<"K","e","a","n","u">>), Some(<<"1","9","6","4">>), Some(NULL),
            Some(<<"a","c","t","o","r",",","p","r","o","d","u","c","e","r">>),
            Some(<<"t","t","1",",","t","t","2">>)),
      NameRow(Some("nm1"), Some(<<"K","e","a","n","e">>), Some(<<"1","8","9","0">>), Some(<<"1","9","6","0">>),
            Some(<<"d","i","r","e","c","t","o","r">>),
            Some(NULL)),
      NameRow(Some("nm2"), Some(NULL), Some(NULL), Some(NULL),
            Some(NULL),
            Some(NULL)),
      NameRow(Some("nm3"), Some(<<"A","n","n","a">>), Some(<<"1","9","x">>), Some(<<>>),
            Some(NULL),
            None) }

MaxRows == 3

\* the sequences of at most n rows drawn from a set of rows
RECURSIVE RowSeqs(_, _)
RowSeqs(rows, n) ==
    IF n = 0 THEN { <<>> }
    ELSE LET shorter == RowSeqs(rows, n - 1)
         IN  shorter \cup { Append(q, r) : q \in { x \in shorter : Len(x) = n - 1 },
                                               r \in rows }

\* the dataset files with at most MaxRows rows in all
Sources ==
    { x \in [basics : RowSeqs(BasicsRows, MaxRows),
             ratings : RowSeqs(RatingsRows, MaxRows),
             names : RowSeqs(NamesRows, MaxRows),
             akas : {<<>>}, principals : {<<>>}, unreadable : {{}}] :
        Len(x.basics) + Len(x.ratings) + Len(x.names) <= MaxRows }

(***************************************************************************)
(* Requests.  A request is the default request with at most MaxSupplied    *)
(* parameters supplied; `fault` names the engine call that fails while the *)
(* request is served ("none", "search" or "doc").                          *)
(***************************************************************************)
MaxSupplied == 3
MaxYear == 2026
\* the calendar years the clock can show
Years == 2025..MaxYear

Supplied(r, default, slots) ==
    Cardinality({ j \in 1..Len(slots) : r[slots[j]] # default[slots[j]] })

RECURSIVE Requests(_, _, _, _)
Requests(default, values, slots, i) ==
    IF i = 0 THEN {default}
    ELSE LET R == Requests(default, values, slots, i - 1)
         IN  R \cup { [r EXCEPT ![slots[i]] = v] :
                        r \in { x \in R : Supplied(x, default, slots) < MaxSupplied },
                        v \in values[slots[i]] }

TitleSlots ==
    <<"query", "limit", "sort", "title_type", "start_year_min",
      "start_year_max", "end_year_min", "end_year_max", "min_rating",
      "max_rating", "min_votes", "max_votes", "genres", "fault">>

\* TitleSearchParams with every field at its serde default
TitleDefault ==
    [query |-> None, limit |-> None, sort |-> None, title_type |-> None,
     start_year_min |-> None, start_year_max |-> None,
     end_year_min |-> None, end_year_max |-> None,
     min_rating |-> None, max_rating |-> None,
     min_votes |-> None, max_votes |-> None,
     genres |-> <<>>, fault |-> "none"]

TERM_ANIMATION == <<"a","n","i","m","a","t","i","o","n">>
TERM_ACTION == <<"a","c","t","i","o","n">>
TERM_SCI == <<"s","c","i">>
TERM_ACTOR == <<"a","c","t","o","r">>
TERM_PRODUCER == <<"p","r","o","d","u","c","e","r">>
TERM_DIRECTOR == <<"d","i","r","e","c","t","o","r">>

TitleValues ==
    [query |-> {Some(<<" ">>), Some(<<"U","p">>), Some(<<"^">>)},
     limit |-> {Some(0), Some(1), Some(2), Some(51)},
     sort |-> {Some("rating_desc"), Some("rating_asc"),
               Some("votes_desc"), Some("votes_asc")},
     title_type |-> {Some(""), Some("movie"), Some("short")},
     start_year_min |-> {Some(0), Some(1970), Some(2010)},
     start_year_max |-> {Some(1975), Some(2010)},
     end_year_min |-> {Some(2000)},
     end_year_max |-> {Some(2010)},
     min_rating |-> {Some(50)},
     max_rating |-> {Some(83)},
     min_votes |-> {Some(0), Some(2000)},
     max_votes |-> {Some(100000)},
     genres |-> {<<TERM_ANIMATION>>, <<TERM_ACTION, TERM_ANIMATION>>, <<TERM_ACTION, TERM_SCI>>, << <<>> >>},
     fault |-> {"search", "doc"}]

TitleRequests == Requests(TitleDefault, TitleValues, TitleSlots, Len(TitleSlots))

NameSlots ==
    <<"query", "limit", "birth_year_min", "birth_year_max",
      "primary_profession", "fault">>

\* NameSearchParams with every field at its serde default
NameDefault ==
    [query |-> <<>>, limit |-> None, birth_year_min |-> None,
     birth_year_max |-> None, primary_profession |-> <<>>, fault |-> "none"]

NameValues ==
    [query |-> {<<" ">>, <<"K","e","a","n">>, <<"^">>},
     limit |-> {Some(0), Some(1), Some(51)},
     birth_year_min |-> {Some(0), Some(1900)},
     birth_year_max |-> {Some(1950)},
     primary_profession |-> {<<TERM_ACTOR>>, <<TERM_ACTOR, TERM_PRODUCER>>, <<TERM_ACTOR, TERM_DIRECTOR>>,
                             << <<>> >>},
     fault |-> {"search", "doc"}]

NameRequests == Requests(NameDefault, NameValues, NameSlots, Len(NameSlots))

TitleIds == {"tt_exact", "tt_short", "tt_absent"}
NameIds == {"nm0000206", "nm3", "nm_absent"}
Faults == {"none", "search", "doc"}

(***************************************************************************)
(* The service: one request is served at a time by a handler, then its     *)
(* response is sent.                                                       *)
(***************************************************************************)
Serve(kind, params, outcome) ==
    /\ request = None
    /\ request' = Some([kind |-> kind, params |-> params])
    /\ response' = Some(outcome.response)
    /\ trace' = outcome.trace
    /\ UNCHANGED <<startup, inflight, now, titleDocs, nameDocs, prev, call,
                   source, disk, boot>>

SearchTitles ==
    /\ request = None
    /\ \E params \in TitleRequests :
        Serve("search_titles", params, search_titles(titleDocs, params))

SearchNames ==
    /\ request = None
    /\ \E params \in NameRequests :
        Serve("search_names", params, search_names(nameDocs, params))

GetTitleById ==
    /\ request = None
    /\ \E id \in TitleIds, fault \in Faults :
        LET params == [id |-> id, fault |-> fault]
        IN  Serve("get_title_by_id", params, get_title_by_id(titleDocs, params))

GetNameById ==
    /\ request = None
    /\ \E id \in NameIds, fault \in Faults :
        LET params == [id |-> id, fault |-> fault]
        IN  Serve("get_name_by_id", params, get_name_by_id(nameDocs, params))

\* the response leaves the handler
Respond ==
    /\ request # None
    /\ request' = None
    /\ response' = None
    /\ trace' = NoTrace
    /\ UNCHANGED <<startup, inflight, now, titleDocs, nameDocs, prev, call,
                   source, disk, boot>>

Init ==
    /\ now \in Years
    /\ titleDocs = TitleCorpus
    /\ nameDocs = NameCorpus
    /\ request = None
    /\ response = None
    /\ trace = NoTrace
    /\ prev = None
    /\ call = None
    /\ Running

Next ==
    \/ SearchTitles
    \/ SearchNames
    \/ GetTitleById
    \/ GetNameById
    \/ Respond

Spec == Init /\ [][Next]_vars

(***************************************************************************)
(* Direct calls of the scorer (as in tests/scoring.rs) while the clock     *)
(* runs.                                                                   *)
(***************************************************************************)
WithQuality(result, rating, votes) ==
    [result EXCEPT !.average_rating = rating, !.num_votes = votes]

\* <<rating, votes>> pairs: the values of tests/scoring.rs, low-rated
\* titles and an unrated title
Qualities ==
    { <<Some(83), Some(179650)>>, <<Some(90), Some(321631)>>,
      <<Some(10), Some(12000)>>, <<Some(11), Some(1000000)>>,
      <<None, None>> }

\* the ended series of tests/scoring.rs 56-68 (start and end year 1999)
ENDED_SERIES ==
    [document_to_title_result(TitleCorpus[3]) EXCEPT
        !.tconst = "tt_classic", !.start_year = Some(1999),
        !.end_year = Some(1999)]

Candidates ==
    { WithQuality(document_to_title_result(TitleCorpus[i]), qv[1], qv[2]) :
        i \in {1, 3}, qv \in Qualities }

BaseScores == {0, 10000, 50000}

ScoreQueries == {None, Some(UP)}

ScoreCall ==
    \E base_score \in BaseScores, result \in Candidates, query_lower \in ScoreQueries :
        /\ prev' = call
        /\ call' = Some([base_score |-> base_score, result |-> result,
                         query_lower |-> query_lower, at |-> now,
                         score |-> compute_title_relevance_score(
                                       base_score, result, query_lower)])
        /\ UNCHANGED <<startup, inflight, now, titleDocs, nameDocs, request, response, trace,
                   source, disk, boot>>

\* the wall clock passes into the next year
Tick ==
    /\ now < MaxYear
    /\ now' = now + 1
    /\ UNCHANGED <<startup, inflight, titleDocs, nameDocs, request, response, trace, prev, call,
                   source, disk, boot>>

NextScore == ScoreCall \/ Tick

SpecScore == Init /\ [][NextScore]_vars

\* the scorer over the titles "Up", "No Way Up", "Upstart" and "Cup" and
\* queries of at most and of more than 3 characters
START == <<"s","t","a","r","t">>

MatchQueries ==
    {None, Some(<<>>), Some(UP), Some(<<" ","u","p"," ">>), Some(UPSTART),
     Some(START)}

ScoreMatch ==
    \E i \in 1..Len(TitleCorpus), query_lower \in MatchQueries :
        /\ prev' = call
        /\ call' = Some([base_score |-> Scale,
                         result |-> document_to_title_result(TitleCorpus[i]),
                         query_lower |-> query_lower, at |-> now,
                         score |-> compute_title_relevance_score(
                                       Scale, document_to_title_result(TitleCorpus[i]),
                                       query_lower)])
        /\ UNCHANGED <<startup, inflight, now, titleDocs, nameDocs, request, response, trace,
                   source, disk, boot>>

NextMatch == ScoreMatch \/ Tick

SpecMatch == Init /\ [][NextMatch]_vars

\* an f32 raw score sig * 2^exp
Float(sig, exp) == [sig |-> sig, exp |-> exp]

\* the fraction bits of an f64
F64_FRACTION_BITS == 52

\* n / d rounded to the nearest integer, ties to even
RoundHalfEven(n, d) ==
    LET q == n \div d
        r == n % d
    IN  IF 2 * r > d \/ (2 * r = d /\ q % 2 = 1) THEN q + 1 ELSE q

\* whether the f64 sum (base_score as f64).max(0.0) + 1.0 is above 1.0: a
\* sum below 2 is rounded to a multiple of 2^-52
SumExceedsOne(base_score) ==
    IF base_score.sig <= 0 THEN FALSE
    ELSE IF base_score.exp >= 0 - F64_FRACTION_BITS THEN TRUE
    ELSE LET shift == 0 - F64_FRACTION_BITS - base_score.exp
         IN  IF shift > 30 THEN FALSE
             ELSE RoundHalfEven(base_score.sig, Pow2(shift)) > 0

\* whether `base` is 0.0 when it is multiplied: ln of a sum of exactly 1.0,
\* not raised by the floor of an exact match
BaseIsZero(base_score, class) ==
    ~SumExceedsOne(base_score) /\ BoostBase(class) = 0

\* the raw score in units of 1 / Scale, rounded down
ToFixed(x) ==
    IF x.exp >= 0 THEN x.sig * Pow2(x.exp) * Scale
    ELSE IF 0 - x.exp > 30 THEN (IF x.sig < 0 THEN 0 - 1 ELSE 0)
    ELSE (x.sig * Scale) \div Pow2(0 - x.exp)

\* raw scores: -1.0, 0.0, 2^-60, 2^-53, 3 * 2^-54, 2^-52, 0.75, 5.0
RawFloats ==
    { Float(0 - 1, 0), Float(0, 0), Float(1, 0 - 60), Float(1, 0 - 53),
      Float(3, 0 - 54), Float(1, 0 - 52), Float(3, 0 - 2), Float(5, 0) }

\* the scorer called with any f32 as raw score; the final product
\* base * combined is 0.0 exactly when base is, combined being at least 0.05
ScoreRaw ==
    \E base_score \in RawFloats, i \in 1..2, query_lower \in ScoreQueries :
        LET result == document_to_title_result(TitleCorpus[i])
        IN  /\ prev' = call
            /\ call' = Some([base_score |-> base_score, result |-> result,
                             query_lower |-> query_lower, at |-> now,
                             score |-> compute_title_relevance_score(
                                           ToFixed(base_score), result, query_lower),
                             zero |-> BaseIsZero(base_score,
                                           MatchClassOf(result, query_lower))])
            /\ UNCHANGED <<startup, inflight, now, titleDocs, nameDocs, request, response, trace,
                       source, disk, boot>>

NextRaw == ScoreRaw \/ Tick

SpecRaw == Init /\ [][NextRaw]_vars

\* the scorer over candidates that differ in their years: a movie, a
\* running series, the ended series and a title without any year, each
\* with the ratings and votes of higher_rating_and_votes_outweigh_recency
RecencyCandidates ==
    { WithQuality(t, qv[1], qv[2]) :
        t \in { document_to_title_result(TitleCorpus[i]) : i \in {1, 3, 4} }
               \cup {ENDED_SERIES},
        qv \in { <<Some(83), Some(179650)>>, <<Some(90), Some(321631)>> } }

\* 1.0, and the 2.0 of the test
RecencyBaseScores == {10000, 20000}

ScoreRecency ==
    \E base_score \in RecencyBaseScores, result \in RecencyCandidates,
       query_lower \in ScoreQueries :
        /\ prev' = call
        /\ call' = Some([base_score |-> base_score, result |-> result,
                         query_lower |-> query_lower, at |-> now,
                         score |-> compute_title_relevance_score(
                                       base_score, result, query_lower)])
        /\ UNCHANGED <<startup, inflight, now, titleDocs, nameDocs, request, response, trace,
                   source, disk, boot>>

NextRecency == ScoreRecency \/ Tick

SpecRecency == Init /\ [][NextRecency]_vars

(***************************************************************************)
(* The service over an index with more documents than the largest limit.   *)
(***************************************************************************)
NumBigDocs == 52

BigTitleCorpus ==
    [i \in 1..NumBigDocs |->
        TitleDoc("tt" \o ToString(i), "movie", <<"U","p">>,
                 Some(1980 + (i % 40)), None, <<>>,
                 Some(10 + ((i * 7) % 90)), Some(100 * i),
                 UP :> (10000 + 100 * ((i * 11) % 53)))]

BigNameCorpus ==
    [i \in 1..NumBigDocs |->
        NameDoc("nm" \o ToString(i), <<"K","e","a","n">>,
                Some(1900 + i), None, << TERM_ACTOR >>, <<>>,
                KEAN :> (10000 + 100 * ((i * 11) % 53)))]

NoValues ==
    [query |-> {}, limit |-> {}, sort |-> {}, title_type |-> {},
     start_year_min |-> {}, start_year_max |-> {},
     end_year_min |-> {}, end_year_max |-> {},
     min_rating |-> {}, max_rating |-> {},
     min_votes |-> {}, max_votes |-> {},
     genres |-> {}, fault |-> {},
     birth_year_min |-> {}, birth_year_max |-> {}, primary_profession |-> {}]

Limits == {Some(0), Some(1), Some(49), Some(50), Some(51), Some(1000)}

BigTitleRequests ==
    Requests(TitleDefault,
             [NoValues EXCEPT !.limit = Limits,
                              !.sort = TitleValues.sort,
                              !.query = {Some(<<"U","p">>)},
                              !.start_year_min = {Some(2000)}],
             TitleSlots, Len(TitleSlots))

BigNameRequests ==
    Requests(NameDefault,
             [NoValues EXCEPT !.limit = Limits,
                              !.query = {<<"K","e","a","n">>},
                              !.birth_year_min = {Some(1920)},
                              !.primary_profession = {<<TERM_ACTOR>>}],
             NameSlots, Len(NameSlots))

InitBig ==
    /\ now \in Years
    /\ titleDocs = BigTitleCorpus
    /\ nameDocs = BigNameCorpus
    /\ request = None
    /\ response = None
    /\ trace = NoTrace
    /\ prev = None
    /\ call = None
    /\ Running

SearchTitlesBig ==
    /\ request = None
    /\ \E params \in BigTitleRequests :
        Serve("search_titles", params, search_titles(titleDocs, params))

SearchNamesBig ==
    /\ request = None
    /\ \E params \in BigNameRequests :
        Serve("search_names", params, search_names(nameDocs, params))

NextBig == SearchTitlesBig \/ SearchNamesBig \/ Respond

SpecBig == InitBig /\ [][NextBig]_vars

(***************************************************************************)
(* Startup: prepare_indexes prepares the title index, then the person      *)
(* index; an index whose directory holds no meta.json is built first.      *)
(* boot.pc is the step the process is about to take.                       *)
(***************************************************************************)
Down == [pc |-> "down", target |-> "titles", writer |-> <<>>]

At(pc) == boot.pc = pc

Goto(pc) == boot' = [boot EXCEPT !.pc = pc]

\* index_exists(index_dir)
index_exists(dir) == dir.marker

\* main: the process starts and prepare_indexes turns to the title index
Start ==
    /\ At("down")
    /\ boot' = [pc |-> "check", target |-> "titles", writer |-> <<>>]
    /\ UNCHANGED <<startup, inflight, now, titleDocs, nameDocs, request, response, trace,
                   prev, call, source, disk>>

\* prepare_title_index / prepare_name_index: build unless the marker exists
CheckMarker ==
    /\ At("check")
    /\ IF index_exists(disk[boot.target]) THEN Goto("open") ELSE Goto("clear")
    /\ UNCHANGED <<startup, inflight, now, titleDocs, nameDocs, request, response, trace,
                   prev, call, source, disk>>

\* build_*_index_sync: remove_dir_all of an existing directory
ClearDir ==
    /\ At("clear")
    /\ disk' = IF disk[boot.target].exists
               THEN [disk EXCEPT ![boot.target] = NoDir]
               ELSE disk
    /\ Goto("mkdir")
    /\ UNCHANGED <<startup, inflight, now, titleDocs, nameDocs, request, response, trace,
                   prev, call, source>>

\* create_dir_all
CreateDir ==
    /\ At("mkdir")
    /\ disk' = [disk EXCEPT ![boot.target] = Dir(TRUE, FALSE, <<>>)]
    /\ Goto("create")
    /\ UNCHANGED <<startup, inflight, now, titleDocs, nameDocs, request, response, trace,
                   prev, call, source>>

\* Index::create_in_dir writes the meta.json of an index without segments
CreateIndex ==
    /\ At("create")
    /\ disk' = [disk EXCEPT ![boot.target] = Dir(TRUE, TRUE, <<>>)]
    /\ Goto("rows")
    /\ UNCHANGED <<startup, inflight, now, titleDocs, nameDocs, request, response, trace,
                   prev, call, source>>

\* the lookups are loaded and the loop over the rows adds the documents
\* to the writer
IndexRows ==
    /\ At("rows")
    /\ boot' = [boot EXCEPT
           !.pc = "commit",
           !.writer =
               IF boot.target = "titles"
               THEN AddedTitleDocs(source.basics,
                        load_ratings_map(source.ratings, Len(source.ratings)), 1)
               ELSE AddedNameDocs(source.names, 1)]
    /\ UNCHANGED <<startup, inflight, now, titleDocs, nameDocs, request, response, trace,
                   prev, call, source, disk>>

\* writer.commit()
Commit ==
    /\ At("commit")
    /\ disk' = [disk EXCEPT ![boot.target].committed = boot.writer]
    /\ boot' = [boot EXCEPT !.pc = "open", !.writer = <<>>]
    /\ UNCHANGED <<startup, inflight, now, titleDocs, nameDocs, request, response, trace,
                   prev, call, source>>

\* Index::open_in_dir and the reader; after the title index the person
\* index is prepared, after the person index the service runs
OpenIndex ==
    /\ At("open")
    /\ index_exists(disk[boot.target])
    /\ IF boot.target = "titles"
       THEN /\ titleDocs' = disk.titles.committed
            /\ nameDocs' = nameDocs
            /\ boot' = [boot EXCEPT !.pc = "check", !.target = "names"]
       ELSE /\ nameDocs' = disk.names.committed
            /\ titleDocs' = titleDocs
            /\ Goto("serving")
    /\ UNCHANGED <<startup, inflight, now, request, response, trace, prev, call, source, disk>>

\* the process ends: a step of the startup returned an error (a dataset
\* file that cannot be read, an I/O error) or the process was stopped
Exit ==
    /\ ~At("down")
    /\ request = None
    /\ boot' = Down
    /\ titleDocs' = <<>>
    /\ nameDocs' = <<>>
    /\ UNCHANGED <<startup, inflight, now, request, response, trace, prev, call, source, disk>>

\* an exact-id lookup of an indexed id on the running service
LookupBuilt ==
    /\ At("serving")
    /\ request = None
    /\ \/ \E a \in 1..Len(titleDocs) :
            LET params == [id |-> titleDocs[a].tconst, fault |-> "none"]
            IN  Serve("get_title_by_id", params, get_title_by_id(titleDocs, params))
       \/ \E a \in 1..Len(nameDocs) :
            LET params == [id |-> nameDocs[a].nconst, fault |-> "none"]
            IN  Serve("get_name_by_id", params, get_name_by_id(nameDocs, params))

InitBuild ==
    /\ now = CHOOSE y \in Years : \A z \in Years : y <= z
    /\ source \in Sources
    /\ disk = [titles |-> NoDir, names |-> NoDir]
    /\ boot = Down
    /\ inflight = NoFlights
    /\ startup = NotStarted
    /\ titleDocs = <<>>
    /\ nameDocs = <<>>
    /\ request = None
    /\ response = None
    /\ trace = NoTrace
    /\ prev = None
    /\ call = None

NextBuild ==
    \/ Start
    \/ CheckMarker
    \/ ClearDir
    \/ CreateDir
    \/ CreateIndex
    \/ IndexRows
    \/ Commit
    \/ OpenIndex
    \/ Exit
    \/ LookupBuilt
    \/ Respond

SpecBuild == InitBuild /\ [][NextBuild]_vars

(***************************************************************************)
(* Two candidates of one result list scored side by side, as in            *)
(* tests/scoring.rs: `prev` holds the first call and `call` the second.    *)
(***************************************************************************)
\* the candidates of the tests, a series and a title that extends its name
RankedTitles ==
    { document_to_title_result(TitleCorpus[i]) : i \in 1..3 } \cup
    { [document_to_title_result(TitleCorpus[3]) EXCEPT
          !.tconst = "tt_plural",
          !.title_type = Some("movie"),
          !.primary_title = <<"U","p","s","t","a","r","t","s">>] }

\* <<rating, votes>> as one ratings row gives them, or neither
RankedQualities ==
    { <<Some(83), Some(1201529)>>, <<Some(46), Some(11321)>>,
      <<Some(10), Some(12000)>>, <<Some(10), Some(1999)>>,
      <<Some(10), Some(2000)>>, <<Some(83), Some(49)>>,
      <<Some(83), Some(50)>>, <<Some(83), Some(499)>>,
      <<Some(83), Some(500)>>, <<None, None>> }

RankedCandidates ==
    { WithQuality(t, qv[1], qv[2]) : t \in RankedTitles, qv \in RankedQualities }

\* raw lexical scores between 0 and 5.0
RawScores == {0, 7500, 10000, 50000}

RankedQueries == {None, Some(UP), Some(UPSTART)}

\* one call of the scorer, as recorded in `prev` and `call`
ScoreRecord(base_score, result, query_lower) ==
    [base_score |-> base_score, result |-> result,
     query_lower |-> query_lower, at |-> now,
     score |-> compute_title_relevance_score(base_score, result, query_lower)]

ScorePair ==
    /\ call = None
    /\ \E b1 \in RawScores, b2 \in RawScores,
          r1 \in RankedCandidates, r2 \in RankedCandidates,
          q \in RankedQueries :
          /\ prev' = Some(ScoreRecord(b1, r1, q))
          /\ call' = Some(ScoreRecord(b2, r2, q))
    /\ UNCHANGED <<startup, inflight, now, titleDocs, nameDocs, request, response, trace,
                   source, disk, boot>>

\* the scored pair is dropped
Forget ==
    /\ call # None
    /\ prev' = None
    /\ call' = None
    /\ UNCHANGED <<startup, inflight, now, titleDocs, nameDocs, request, response, trace,
                   source, disk, boot>>

NextRank == ScorePair \/ Forget

SpecRank == Init /\ [][NextRank]_vars

(***************************************************************************)
(* search_titles step by step: the handler takes a searcher from the       *)
(* reader, runs the query on it and fetches every hit's document from it,  *)
(* while other requests are served and the reader reloads after a commit.  *)
(***************************************************************************)
\* the title index after later commits: the documents under other
\* addresses, and with other ratings
Generations ==
    { TitleCorpus,
      <<TitleCorpus[4], TitleCorpus[3], TitleCorpus[2], TitleCorpus[1]>>,
      <<TitleCorpus[2],
        [TitleCorpus[1] EXCEPT !.average_rating = Some(12)],
        TitleCorpus[3], TitleCorpus[4]>> }

SnapshotRequests ==
    { TitleDefault,
      [TitleDefault EXCEPT !.query = Some(<<"U","p">>)],
      [TitleDefault EXCEPT !.sort = Some("rating_desc"), !.limit = Some(2)],
      [TitleDefault EXCEPT !.title_type = Some("short")] }

\* a handler that asks the reader for a searcher at every use
SearcherOf_Reader(w) == titleDocs

\* the searcher the handler holds in its local variable
SearcherOf(w) == Unwrap(inflight[w].searcher)

FlightSortMode(w) == UnwrapOr(inflight[w].params.sort, "relevance")

FlightQueryLower(w) ==
    LET query_text == Trim(UnwrapOr(inflight[w].params.query, <<>>))
    IN  IF query_text = <<>> THEN None ELSE Some(ToLowercase(query_text))

\* let searcher = title_index.reader.searcher()
Acquire(w) ==
    /\ inflight[w].pc = "idle"
    /\ \E params \in SnapshotRequests :
          inflight' = [inflight EXCEPT ![w] =
              Flight("query", params, Some(titleDocs), <<>>, <<>>,
                     inflight[w].acquired + 1)]
    /\ UNCHANGED <<startup, now, titleDocs, nameDocs, request, response, trace,
                   prev, call, source, disk, boot>>

\* searcher.search(&combined_query, &collector)
RunQuery(w) ==
    /\ inflight[w].pc = "query"
    /\ inflight' = [inflight EXCEPT
           ![w].pc = "fetch",
           ![w].hits = TitleHits(SearcherOf(w),
                                 CombinedQuery(TitleClauses(inflight[w].params)),
                                 FlightSortMode(w),
                                 EffectiveLimit(inflight[w].params.limit))]
    /\ UNCHANGED <<startup, now, titleDocs, nameDocs, request, response, trace,
                   prev, call, source, disk, boot>>

\* one turn of the loop over the hits: searcher.doc(addr) and the result
\* built from the document
FetchDoc(w) ==
    /\ inflight[w].pc = "fetch"
    /\ Len(inflight[w].results) < Len(inflight[w].hits)
    /\ inflight' = [inflight EXCEPT ![w].results =
           Append(@, TitleResultOfHit(SearcherOf(w),
                                      inflight[w].hits[Len(@) + 1],
                                      FlightSortMode(w), FlightQueryLower(w)))]
    /\ UNCHANGED <<startup, now, titleDocs, nameDocs, request, response, trace,
                   prev, call, source, disk, boot>>

\* after the loop: the sort and the truncation of relevance mode
Finish(w) ==
    /\ inflight[w].pc = "fetch"
    /\ Len(inflight[w].results) = Len(inflight[w].hits)
    /\ inflight' = [inflight EXCEPT
           ![w].pc = "done",
           ![w].results =
               IF FlightSortMode(w) = "relevance"
               THEN Truncate(SortByScoreDesc(@),
                             EffectiveLimit(inflight[w].params.limit))
               ELSE @]
    /\ UNCHANGED <<startup, now, titleDocs, nameDocs, request, response, trace,
                   prev, call, source, disk, boot>>

\* the response is sent and the searcher dropped
Send(w) ==
    /\ inflight[w].pc = "done"
    /\ inflight' = [inflight EXCEPT ![w] = Idle]
    /\ UNCHANGED <<startup, now, titleDocs, nameDocs, request, response, trace,
                   prev, call, source, disk, boot>>

\* ReloadPolicy::OnCommitWithDelay: a commit to the index directory
\* becomes the reader's current searcher
Reload ==
    /\ At("serving")
    /\ \E docs \in Generations \ {titleDocs} :
          /\ titleDocs' = docs
          /\ disk' = [disk EXCEPT !.titles.committed = docs]
    /\ UNCHANGED <<startup, now, nameDocs, request, response, trace,
                   prev, call, source, boot, inflight>>

NextSnapshot ==
    \/ \E w \in Workers : Acquire(w)
    \/ \E w \in Workers : RunQuery(w)
    \/ \E w \in Workers : FetchDoc(w)
    \/ \E w \in Workers : Finish(w)
    \/ \E w \in Workers : Send(w)
    \/ Reload

SpecSnapshot == Init /\ [][NextSnapshot]_vars

(***************************************************************************)
(* The service over the one-document indexes of tests/api_endpoints.rs,    *)
(* with the lexical match of the query parser worked out: a word of the    *)
(* request matches a term of a fuzzy field within one edit.                *)
(***************************************************************************)
DropChar(s, i) == SubSeq(s, 1, i - 1) \o SubSeq(s, i + 1, Len(s))

\* FuzzyTermQuery::new(term, 1, true): Levenshtein distance at most 1, the
\* swap of two neighbours counting as one edit; the whole term is compared
WithinOneEdit(a, b) ==
    \/ a = b
    \/ /\ Len(a) = Len(b)
       /\ Cardinality({ i \in 1..Len(a) : a[i] # b[i] }) = 1
    \/ /\ Len(a) = Len(b)
       /\ \E i \in 1..(Len(a) - 1) :
             /\ a[i] = b[i + 1] /\ a[i + 1] = b[i]
             /\ \A j \in 1..Len(a) : j \notin {i, i + 1} => a[j] = b[j]
    \/ Len(a) + 1 = Len(b) /\ \E i \in 1..Len(b) : a = DropChar(b, i)
    \/ Len(b) + 1 = Len(a) /\ \E i \in 1..Len(a) : b = DropChar(a, i)

\* the request texts the parsed query matches on a document, with the
\* engine's score: some word of the text is within one edit of a term of
\* a fuzzy field, or is a term of a field searched without fuzziness
FuzzyLex(fuzzy_values, plain_values, texts) ==
    LET matched(q) ==
            \E w \in TermsOfValues(<<q>>, 1) :
               \/ \E t \in TermsOfValues(fuzzy_values, 1) : WithinOneEdit(w, t)
               \/ w \in TermsOfValues(plain_values, 1)
    IN  [t \in { ToLowercase(Trim(q)) : q \in { x \in texts : matched(x) } }
           |-> Scale]

THE_MATRIX == <<"T","h","e"," ","M","a","t","r","i","x">>
KEANU_REEVES == <<"K","e","a","n","u"," ","R","e","e","v","e","s">>

OneTitleTexts ==
    { <<"M","a","t","r","i","x">>, <<"m","a","t","r","x">>,
      <<"M","a","t">>, <<"T","h","e"," ","M","a","t","r","i","x">>,
      <<"N","e","o">> }

OnePersonTexts ==
    { <<"K","e","a","n">>, <<"K","e","a">>, <<"K","e","a","n","u">>,
      <<"r","e","e","v","s","e">>, <<"A","n","n","a">> }

\* build_test_indexes: the title document
OneTitleIndex ==
    LET genres == << <<"A","c","t","i","o","n">>, <<"S","c","i","-","F","i">> >>
    IN  << [TitleDoc("tt0133093", "movie", THE_MATRIX, Some(1999), Some(1999),
                     genres, Some(87), Some(1900000),
                     FuzzyLex(<<THE_MATRIX>>, genres, OneTitleTexts))
              EXCEPT !.original_title = Some(THE_MATRIX)] >>

\* build_test_indexes: the person document
OnePersonIndex ==
    << NameDoc("nm0000206", KEANU_REEVES, Some(1964), None,
               <<TERM_ACTOR>>, << <<"t","t","0","1","3","3","0","9","3">> >>,
               FuzzyLex(<<KEANU_REEVES, TERM_ACTOR>>, <<>>, OnePersonTexts)) >>

OneTitleRequests ==
    { [TitleDefault EXCEPT !.query = Some(q), !.title_type = t, !.limit = l] :
        q \in OneTitleTexts,
        t \in {None, Some("movie"), Some("short")},
        l \in {None, Some(1)} }

OnePersonRequests ==
    { [NameDefault EXCEPT !.query = q, !.birth_year_min = y,
                          !.primary_profession = p] :
        q \in OnePersonTexts,
        y \in {None, Some(1900), Some(1964), Some(1970)},
        p \in {<<>>, <<TERM_ACTOR>>, <<TERM_DIRECTOR>>} }

SearchOneTitle ==
    /\ request = None
    /\ \E params \in OneTitleRequests :
          Serve("search_titles", params, search_titles(titleDocs, params))

SearchOnePerson ==
    /\ request = None
    /\ \E params \in OnePersonRequests :
          Serve("search_names", params, search_names(nameDocs, params))

InitOne ==
    /\ now \in Years
    /\ titleDocs = OneTitleIndex
    /\ nameDocs = OnePersonIndex
    /\ request = None
    /\ response = None
    /\ trace = NoTrace
    /\ prev = None
    /\ call = None
    /\ Running

NextOne == SearchOneTitle \/ SearchOnePerson \/ Respond

SpecOne == InitOne /\ [][NextOne]_vars

(***************************************************************************)
(* prepare_indexes lookup by lookup: the name table and the principals     *)
(* table are loaded, then each index is built from its files unless its    *)
(* marker exists, and opened.  Opening an unreadable file ends the startup *)
(* with an error that names the file.                                      *)
(***************************************************************************)
AkaRow(title_id, title) == [title_id |-> title_id, title |-> title]

PrincipalRow(tconst, nconst) == [tconst |-> tconst, nconst |-> nconst]

\* the value a lookup holds under a key, None without an entry
Lookup(map, key) ==
    IF \E e \in map : e[1] = key
    THEN Some((CHOOSE e \in map : e[1] = key)[2])
    ELSE None

\* HashMap::insert: the entry replaces the one under the same key
Insert(map, key, value) == { e \in map : e[1] # key } \cup { <<key, value>> }

\* the name table after the first i rows of name.basics
RECURSIVE load_name_map(_, _)
load_name_map(rows, i) ==
    IF i = 0 THEN {}
    ELSE LET map    == load_name_map(rows, i - 1)
             record == rows[i]
         IN  IF record.nconst = None \/ record.primary_name = None THEN map
             ELSE IF \/ Unwrap(record.nconst) \in {"", "\\N"}
                     \/ Unwrap(record.primary_name) = <<>>
             THEN map
             ELSE Insert(map, Unwrap(record.nconst), Unwrap(record.primary_name))

\* a per-title collection that takes the same name again
InsertName_Always(names, name) == Append(names, name)

\* HashSet::insert into the names of one title; the sequence stands for
\* the set in the order of insertion
InsertName(names, name) ==
    IF \E k \in 1..Len(names) : names[k] = name THEN names
    ELSE Append(names, name)

\* the principals table after the first i rows of title.principals
RECURSIVE load_principals_map(_, _, _)
load_principals_map(rows, name_lookup, i) ==
    IF i = 0 THEN {}
    ELSE LET map    == load_principals_map(rows, name_lookup, i - 1)
             record == rows[i]
         IN  IF record.tconst = None \/ record.nconst = None THEN map
             ELSE IF \/ Unwrap(record.tconst) \in {"", "\\N"}
                     \/ Unwrap(record.nconst) \in {"", "\\N"}
             THEN map
             ELSE LET name == Lookup(name_lookup, Unwrap(record.nconst))
                      held == UnwrapOr(Lookup(map, Unwrap(record.tconst)), <<>>)
                  IN  IF name = None THEN map
                      ELSE Insert(map, Unwrap(record.tconst),
                                  InsertName(held, Unwrap(name)))

\* the alternate titles after the first i rows of title.akas, per title id
\* in file order
RECURSIVE load_aka_map(_, _)
load_aka_map(rows, i) ==
    IF i = 0 THEN {}
    ELSE LET map    == load_aka_map(rows, i - 1)
             record == rows[i]
         IN  IF record.title_id = None \/ record.title = None THEN map
             ELSE IF Unwrap(record.title) \in {<<>>, NULL} THEN map
             ELSE Insert(map, Unwrap(record.title_id),
                         Append(UnwrapOr(Lookup(map, Unwrap(record.title_id)), <<>>),
                                Unwrap(record.title)))

\* the alternate titles the loop adds: those that `seen` takes
RECURSIVE UnseenAkas(_, _, _)
UnseenAkas(aka_titles, i, seen) ==
    IF i > Len(aka_titles) THEN <<>>
    ELSE IF aka_titles[i] \in seen THEN UnseenAkas(aka_titles, i + 1, seen)
    ELSE <<aka_titles[i]>>
         \o UnseenAkas(aka_titles, i + 1, seen \cup {aka_titles[i]})

\* the values the title loop adds to the search_titles field of the
\* document of one row, in order; no entry for a row it skips
SearchTitlesOfRow(record, aka_map, principals_map) ==
    IF TitleDocOfRow(record, {}) = None THEN <<>>
    ELSE LET doc        == Unwrap(TitleDocOfRow(record, {}))
             original   == IF doc.original_title = None THEN <<>>
                           ELSE <<Unwrap(doc.original_title)>>
             aka_titles == Lookup(aka_map, doc.tconst)
             names      == Lookup(principals_map, doc.tconst)
         IN  << [tconst |-> doc.tconst,
                 primary_title |-> doc.primary_title,
                 original_title |-> doc.original_title,
                 titles |->
                     <<doc.primary_title>> \o original
                     \o (IF aka_titles = None THEN <<>>
                         ELSE UnseenAkas(Unwrap(aka_titles), 1,
                                  {doc.primary_title}
                                  \cup { original[k] : k \in 1..Len(original) })),
                 names |-> UnwrapOr(names, <<>>)] >>

RECURSIVE AddedSearchTitles(_, _, _, _)
AddedSearchTitles(rows, aka_map, principals_map, i) ==
    IF i > Len(rows) THEN <<>>
    ELSE SearchTitlesOfRow(rows[i], aka_map, principals_map)
         \o AddedSearchTitles(rows, aka_map, principals_map, i + 1)

OBEN == <<"O","b","e","n">>
KEANU == <<"K","e","a","n","u">>
ANNA == <<"A","n","n","a">>

\* rows of title.akas for tt1: alternate titles equal to the primary
\* title, different from it, different in letter case only, the null
\* token and a row without a title column
AkaRows ==
    { AkaRow(Some("tt1"), Some(<<"U","p">>)),
      AkaRow(Some("tt1"), Some(OBEN)),
      AkaRow(Some("tt1"), Some(<<"u","p">>)),
      AkaRow(Some("tt1"), Some(NULL)),
      AkaRow(Some("tt1"), None) }

\* rows of title.principals: two persons of one display name, a person
\* the name table does not hold, a null title id and a row without a
\* person column
PrincipalRows ==
    { PrincipalRow(Some("tt1"), Some("nm1")),
      PrincipalRow(Some("tt1"), Some("nm2")),
      PrincipalRow(Some("tt1"), Some("nm3")),
      PrincipalRow(Some("\\N"), Some("nm1")),
      PrincipalRow(Some("tt1"), None) }

\* title.basics: the title with no, the same and another original title,
\* and after a row that stops after its id
LoadedBasics ==
    LET up(original) ==
            TitleRow(Some("tt1"), Some("movie"), Some(<<"U","p">>), Some(original),
                     Some(<<"2","0","0","9">>), Some(NULL), Some(<<"W","a","r">>))
        short == TitleRow(Some("tt3"), None, None, None, None, None, None)
    IN  { <<up(NULL)>>, <<up(<<"U","p">>)>>, <<up(OBEN)>>, <<short, up(OBEN)>> }

\* name.basics: two persons of one display name, a person without a
\* name, a row that stops after its id and a person after it
LoadedNames ==
    << NameRow(Some("nm1"), Some(KEANU), Some(<<"1","9","6","4">>), Some(NULL),
               Some(NULL), Some(NULL)),
       NameRow(Some("nm2"), Some(KEANU), Some(NULL), Some(NULL), Some(NULL), Some(NULL)),
       NameRow(Some("nm3"), Some(<<>>), Some(NULL), Some(NULL), Some(NULL), Some(NULL)),
       NameRow(Some("nm4"), None, None, None, None, None),
       NameRow(Some("nm5"), Some(ANNA), Some(NULL), Some(NULL), Some(NULL), Some(NULL)) >>

\* title.ratings: a row that stops after its id and a row after it
LoadedRatings ==
    << RatingRow(Some("tt1"), None, None),
       RatingRow(Some("tt1"), Some(<<"8",".","3">>), Some(<<"1","2","0","1","5","2","9">>)) >>

DatasetFiles ==
    {"name.basics", "title.principals", "title.ratings", "title.akas",
     "title.basics"}

\* readable datasets with at most MaxRows rows of title.akas and
\* title.principals in all
ReadableSources ==
    { x \in [basics : LoadedBasics, ratings : {LoadedRatings},
             names : {LoadedNames},
             akas : RowSeqs(AkaRows, MaxRows),
             principals : RowSeqs(PrincipalRows, MaxRows),
             unreadable : {{}}] :
        Len(x.akas) + Len(x.principals) <= MaxRows }

\* one dataset of which at most one file cannot be opened
FaultySources ==
    { [basics |-> <<TitleRow(Some("tt1"), Some("movie"), Some(<<"U","p">>),
                             Some(OBEN), Some(<<"2","0","0","9">>), Some(NULL),
                             Some(<<"W","a","r">>))>>,
       ratings |-> LoadedRatings, names |-> LoadedNames,
       akas |-> <<AkaRow(Some("tt1"), Some(OBEN))>>,
       principals |-> <<PrincipalRow(Some("tt1"), Some("nm1"))>>,
       unreadable |-> u] : u \in {{}} \cup { {f} : f \in DatasetFiles } }

\* an index directory as an earlier run of the service left it
BuiltBefore(docs) == Dir(TRUE, TRUE, docs)

Stage(pc) == startup.pc = pc

\* a file that cannot be opened is taken for a file without rows
OpenFile_Ignore(file, next) == [next EXCEPT !.read = startup.read \cup {file}]

\* ReaderBuilder::from_path(path).with_context(..)?: the error names the
\* file, otherwise the step goes on with what it has read
OpenFile(file, next) ==
    IF file \in source.unreadable
    THEN [startup EXCEPT !.pc = "failed", !.error = file]
    ELSE [next EXCEPT !.read = startup.read \cup {file}]

\* load_name_map(&names.tsv_path)?
LoadNameMap ==
    /\ Stage("main")
    /\ source # NoSource
    /\ startup' = OpenFile("name.basics",
           [startup EXCEPT !.pc = "principals",
                           !.name_lookup = load_name_map(source.names, Len(source.names))])
    /\ UNCHANGED <<now, titleDocs, nameDocs, request, response, trace,
                   prev, call, source, disk, boot, inflight>>

\* load_principals_map(&principals.tsv_path, &name_lookup)?
LoadPrincipalsMap ==
    /\ Stage("principals")
    /\ startup' = OpenFile("title.principals",
           [startup EXCEPT !.pc = "title_marker",
                           !.principals_map =
                               load_principals_map(source.principals, startup.name_lookup,
                                                   Len(source.principals))])
    /\ UNCHANGED <<now, titleDocs, nameDocs, request, response, trace,
                   prev, call, source, disk, boot, inflight>>

\* prepare_title_index: if !index_exists(index_dir) the build starts and
\* creates the index
TitleMarker ==
    /\ Stage("title_marker")
    /\ IF index_exists(disk.titles)
       THEN /\ startup' = [startup EXCEPT !.pc = "title_open"]
            /\ disk' = disk
       ELSE /\ startup' = [startup EXCEPT !.pc = "ratings",
                                          !.built = @ \cup {"titles"}]
            /\ disk' = [disk EXCEPT !.titles = Dir(TRUE, TRUE, <<>>)]
    /\ UNCHANGED <<now, titleDocs, nameDocs, request, response, trace,
                   prev, call, source, boot, inflight>>

\* load_ratings_map(ratings_path)?
LoadRatingsMap ==
    /\ Stage("ratings")
    /\ startup' = OpenFile("title.ratings",
           [startup EXCEPT !.pc = "akas",
                           !.ratings_map =
                               load_ratings_map(source.ratings, Len(source.ratings))])
    /\ UNCHANGED <<now, titleDocs, nameDocs, request, response, trace,
                   prev, call, source, disk, boot, inflight>>

\* load_aka_map(akas_path)?
LoadAkaMap ==
    /\ Stage("akas")
    /\ startup' = OpenFile("title.akas",
           [startup EXCEPT !.pc = "basics",
                           !.aka_map = load_aka_map(source.akas, Len(source.akas))])
    /\ UNCHANGED <<now, titleDocs, nameDocs, request, response, trace,
                   prev, call, source, disk, boot, inflight>>

\* the loop over title.basics and the commit
BuildTitles ==
    /\ Stage("basics")
    /\ startup' = OpenFile("title.basics",
           [startup EXCEPT !.pc = "title_open",
                           !.search_titles =
                               AddedSearchTitles(source.basics, startup.aka_map,
                                                 startup.principals_map, 1)])
    /\ disk' = IF "title.basics" \in source.unreadable THEN disk
               ELSE [disk EXCEPT !.titles.committed =
                        AddedTitleDocs(source.basics, startup.ratings_map, 1)]
    /\ UNCHANGED <<now, titleDocs, nameDocs, request, response, trace,
                   prev, call, source, boot, inflight>>

\* Index::open_in_dir and the reader of the title index
OpenTitles ==
    /\ Stage("title_open")
    /\ startup' = [startup EXCEPT !.pc = "name_marker"]
    /\ titleDocs' = disk.titles.committed
    /\ UNCHANGED <<now, nameDocs, request, response, trace,
                   prev, call, source, disk, boot, inflight>>

\* prepare_name_index: if !index_exists(index_dir) the build starts
NameMarker ==
    /\ Stage("name_marker")
    /\ IF index_exists(disk.names)
       THEN /\ startup' = [startup EXCEPT !.pc = "name_open"]
            /\ disk' = disk
       ELSE /\ startup' = [startup EXCEPT !.pc = "names",
                                          !.built = @ \cup {"names"}]
            /\ disk' = [disk EXCEPT !.names = Dir(TRUE, TRUE, <<>>)]
    /\ UNCHANGED <<now, titleDocs, nameDocs, request, response, trace,
                   prev, call, source, boot, inflight>>

\* the loop over name.basics and the commit
BuildNames ==
    /\ Stage("names")
    /\ startup' = OpenFile("name.basics", [startup EXCEPT !.pc = "name_open"])
    /\ disk' = IF "name.basics" \in source.unreadable THEN disk
               ELSE [disk EXCEPT !.names.committed = AddedNameDocs(source.names, 1)]
    /\ UNCHANGED <<now, titleDocs, nameDocs, request, response, trace,
                   prev, call, source, boot, inflight>>

\* Index::open_in_dir and the reader of the person index; Ok(PreparedIndexes)
OpenNames ==
    /\ Stage("name_open")
    /\ startup' = [startup EXCEPT !.pc = "ready"]
    /\ nameDocs' = disk.names.committed
    /\ boot' = Opened
    /\ UNCHANGED <<now, titleDocs, request, response, trace,
                   prev, call, source, disk, inflight>>

InitLoad ==
    /\ now = CHOOSE y \in Years : \A z \in Years : y <= z
    /\ \/ /\ source \in ReadableSources
          /\ disk = [titles |-> NoDir, names |-> NoDir]
       \/ /\ source \in FaultySources
          /\ disk \in [titles : {NoDir, BuiltBefore(TitleCorpus)},
                       names : {NoDir, BuiltBefore(NameCorpus)}]
    /\ boot = Down
    /\ inflight = NoFlights
    /\ startup = NotStarted
    /\ titleDocs = <<>>
    /\ nameDocs = <<>>
    /\ request = None
    /\ response = None
    /\ trace = NoTrace
    /\ prev = None
    /\ call = None

NextLoad ==
    \/ LoadNameMap
    \/ LoadPrincipalsMap
    \/ TitleMarker
    \/ LoadRatingsMap
    \/ LoadAkaMap
    \/ BuildTitles
    \/ OpenTitles
    \/ NameMarker
    \/ BuildNames
    \/ OpenNames

SpecLoad == InitLoad /\ [][NextLoad]_vars

(***************************************************************************)
(* Properties                                                              *)
(***************************************************************************)
Serving(kind) == request # None /\ Unwrap(request).kind = kind
Params == Unwrap(request).params
Resp == Unwrap(response)
Composed == Unwrap(trace.query)
\* the engine did not fail and the handler answered with a result list
Answered == Params.fault = "none" /\ Resp.status = 200

\* the distinct non-empty values of a multi-valued filter
FilterValues(vals) == { vals[i] : i \in 1..Len(vals) } \ {<<>>}

\* the document satisfies every composed clause that is not on `field`
MatchesOtherClauses(doc, field) ==
    \A i \in 1..Len(Composed.must) :
        Composed.must[i].field # field => ClauseMatches(doc, Composed.must[i])

ResultIds(kind) ==
    IF kind = "search_titles"
    THEN { Resp.results[i].tconst : i \in 1..Len(Resp.results) }
    ELSE { Resp.results[i].nconst : i \in 1..Len(Resp.results) }

\* a successful search whose result list was not cut by the limit returns
\* every document that carries one of the filter's values and satisfies
\* the other clauses
OrGroupHolds(kind, docs, field, vals) ==
    (/\ Serving(kind)
     /\ Answered
     /\ Cardinality(FilterValues(vals)) >= 2
     /\ Len(Resp.results) < EffectiveLimit(Params.limit))
    => \A a \in 1..Len(docs) :
          (/\ IndexedTerms(docs[a], field) \cap FilterValues(vals) # {}
           /\ MatchesOtherClauses(docs[a], field))
          => (IF kind = "search_titles" THEN docs[a].tconst ELSE docs[a].nconst)
                \in ResultIds(kind)

\* C1: a search with two or more values for one exact-match filter (title
\* genres, person primary_profession) matches every document that carries
\* at least one of the values and satisfies every other clause: the values
\* form one required OR-group, not an AND of the distinct values.
C1_MultiValueIsOrGroup ==
    /\ Serving("search_titles") =>
          OrGroupHolds("search_titles", titleDocs, "genres", Params.genres)
    /\ Serving("search_names") =>
          OrGroupHolds("search_names", nameDocs, "primaryProfession",
                       Params.primary_profession)

\* the final relevance score the scorer gives a document of the index for
\* the request being served
FinalScoreOf(doc) ==
    compute_title_relevance_score(
        QueryScore(doc, Composed),
        document_to_title_result(doc),
        IF Trim(UnwrapOr(Params.query, <<>>)) = <<>> THEN None
        ELSE Some(ToLowercase(Trim(UnwrapOr(Params.query, <<>>)))))

RelevanceResponse ==
    /\ Serving("search_titles")
    /\ Answered
    /\ UnwrapOr(Params.sort, "relevance") = "relevance"

\* C2: in relevance mode the results are the `limit` matching documents
\* with the highest final relevance scores: no matching document that was
\* left out has a higher final score than a returned one.
C2_TopByFinalScore ==
    RelevanceResponse =>
        \A a \in MatchingDocs(titleDocs, Composed) :
            titleDocs[a].tconst \notin ResultIds("search_titles") =>
                \A i \in 1..Len(Resp.results) :
                    FinalScoreOf(titleDocs[a]) <= Unwrap(Resp.results[i].score)

\* the composed query has exactly one range clause on `field`, with the
\* supplied bounds
OneRangeClause(field, lo, hi) ==
    (lo # None \/ hi # None) =>
        /\ Cardinality({ i \in 1..Len(Composed.must) :
               Composed.must[i].kind = "range" /\ Composed.must[i].field = field }) = 1
        /\ \E i \in 1..Len(Composed.must) :
               Composed.must[i] = RangeQuery(field, lo, hi)

\* C3: for every range filter with at least one supplied bound the
\* composed query has exactly one required range clause, whose lower bound
\* is the supplied min (unbounded when unset) and whose upper bound is the
\* supplied max (unbounded when unset), also for a min of 0 and for a
\* request with only the max.
C3_RangeClauseAsSupplied ==
    /\ (Serving("search_titles") /\ Answered) =>
          /\ OneRangeClause("startYear", Params.start_year_min, Params.start_year_max)
          /\ OneRangeClause("endYear", Params.end_year_min, Params.end_year_max)
          /\ OneRangeClause("averageRating", Params.min_rating, Params.max_rating)
          /\ OneRangeClause("numVotes", Params.min_votes, Params.max_votes)
    /\ (Serving("search_names") /\ Answered) =>
          OneRangeClause("birthYear", Params.birth_year_min, Params.birth_year_max)

HasClause(c) == \E i \in 1..Len(Composed.must) : Composed.must[i] = c

HasRangeOn(field) ==
    \E i \in 1..Len(Composed.must) :
        Composed.must[i].kind = "range" /\ Composed.must[i].field = field

NoFreeText == Trim(UnwrapOr(Params.query, <<>>)) = <<>>

NoTitleType == Params.title_type = None \/ Params.title_type = Some("")

\* C4: in title search the default category set {movie, tvSeries} and the
\* default minimum start year 1980 narrow the results exactly when the
\* request has no free text and no caller-supplied filter of that kind.
C4_DefaultsOnlyWhenUnfiltered ==
    (Serving("search_titles") /\ Answered) =>
        /\ HasClause(ShouldGroup("titleType", default_title_types))
              <=> (NoFreeText /\ NoTitleType)
        /\ (Params.start_year_min = None /\ Params.start_year_max = None) =>
              (HasRangeOn("startYear") <=> NoFreeText)

NothingSupplied ==
    /\ Trim(Params.query) = <<>>
    /\ Params.birth_year_min = None
    /\ Params.birth_year_max = None
    /\ Params.primary_profession = <<>>

\* C5: person search answers 400, without running an engine query, every
\* request whose trimmed text is empty and that supplies no birth-year
\* bound and no profession value; a request with text or a filter is not
\* rejected by this check.
C5_NamesRejectedIffNothingSupplied ==
    Serving("search_names") =>
        /\ NothingSupplied =>
              /\ Resp = BadRequest("provide a query or at least one filter")
              /\ trace.searches = 0
        /\ ~NothingSupplied =>
              Resp.message # "provide a query or at least one filter"

\* a whitespace-only query without filters was rejected
C5_Witness ==
    /\ Serving("search_names")
    /\ Params.query = <<" ">>
    /\ Resp.status = 400
    /\ trace.searches = 0

\* the outcome of an exact-id lookup of `id` among `docs`
LookupOutcome(docs, ids, expected) ==
    IF Params.id \in ids
    THEN Params.fault = "none" =>
            /\ Resp.status = 200
            /\ Resp.body = "item"
            /\ Len(Resp.results) = 1
            /\ \E a \in 1..Len(docs) :
                  Resp.results[1] =
                      [expected[a] EXCEPT !.score = Resp.results[1].score]
    ELSE /\ Resp.body = "error"
         /\ Resp.results = <<>>
         /\ Resp.status = 404 \/ (Resp.status = 500 /\ Params.fault # "none")

\* C6: an exact-id lookup of an id that is not in the index answers 404
\* (never a success with an empty list or a default record, and never an
\* internal error unless the engine itself failed); a lookup of a present
\* id answers with that document.
C6_LookupNotFound ==
    /\ Serving("get_title_by_id") =>
          LookupOutcome(titleDocs,
              { d.tconst : d \in { titleDocs[a] : a \in 1..Len(titleDocs) } },
              [a \in 1..Len(titleDocs) |->
                  IF titleDocs[a].tconst = Params.id
                  THEN document_to_title_result(titleDocs[a])
                  ELSE [tconst |-> ""]])
    /\ Serving("get_name_by_id") =>
          LookupOutcome(nameDocs,
              { d.nconst : d \in { nameDocs[a] : a \in 1..Len(nameDocs) } },
              [a \in 1..Len(nameDocs) |->
                  IF nameDocs[a].nconst = Params.id
                  THEN document_to_name_result(nameDocs[a])
                  ELSE [nconst |-> ""]])

\* an absent title id was looked up on a healthy engine
C6_Witness ==
    /\ Serving("get_title_by_id")
    /\ Params.id = "tt_absent"
    /\ Params.fault = "none"
    /\ Resp.status = 404

\* C7: for any requested limit and any sort mode a search returns at most
\* clamp(limit, 1, 50) results, an absent limit counting as 10: never more
\* than 50, and the effective limit is never 0.
C7_ResultsWithinClampedLimit ==
    ((Serving("search_titles") \/ Serving("search_names")) /\ Resp.status = 200) =>
        LET l   == Params.limit
            eff == IF l = None THEN 10
                   ELSE IF l[1] < 1 THEN 1
                   ELSE IF l[1] > 50 THEN 50
                   ELSE l[1]
            docs == IF Serving("search_titles") THEN titleDocs ELSE nameDocs
        IN  /\ Len(Resp.results) <= eff
            /\ Len(Resp.results) <= 50
            /\ MatchingDocs(docs, Composed) # {} => Len(Resp.results) >= 1

\* a limit above the cap was requested with more than 50 matching titles
C7_Witness ==
    /\ Serving("search_titles")
    /\ Params.limit = Some(1000)
    /\ Cardinality(MatchingDocs(titleDocs, Composed)) > 50
    /\ Len(Resp.results) = 50

\* the stored value of the field a sort mode orders by
SortFieldOf(result, mode) ==
    IF mode \in {"rating_desc", "rating_asc"}
    THEN result.average_rating
    ELSE result.num_votes

\* C8: every title search result carries exactly one of score and
\* sort_value: in relevance mode the scorer's score and no sort_value; in
\* a field-sort mode the stored rating or vote count used for ordering and
\* no score, and the scorer is not invoked.
C8_ScoreXorSortValue ==
    (Serving("search_titles") /\ Resp.status = 200) =>
        LET mode == UnwrapOr(Params.sort, "relevance")
        IN  /\ mode # "relevance" => trace.scorer_calls = 0
            /\ \A i \in 1..Len(Resp.results) :
                 LET r == Resp.results[i]
                 IN  /\ (r.score = None) # (r.sort_value = None)
                     /\ mode = "relevance" =>
                           /\ r.sort_value = None
                           /\ \E a \in 1..Len(titleDocs) :
                                 /\ titleDocs[a].tconst = r.tconst
                                 /\ r.score = Some(FinalScoreOf(titleDocs[a]))
                     /\ mode # "relevance" =>
                           /\ r.score = None
                           /\ SortFieldOf(r, mode) # None =>
                                 r.sort_value = SortFieldOf(r, mode)

\* a rating-sorted search returned two results
C8_Witness ==
    /\ Serving("search_titles")
    /\ Params.sort = Some("rating_desc")
    /\ Resp.status = 200
    /\ Len(Resp.results) >= 2
    /\ Resp.results[1].sort_value = Some(83)

SameArguments(c1, c2) ==
    /\ c1.base_score = c2.base_score
    /\ c1.result = c2.result
    /\ c1.query_lower = c2.query_lower

\* C9: two calls of compute_title_relevance_score with the same base
\* score, candidate fields and query return the same score, whatever else
\* differs between the calls, the wall-clock date included.
C9_Deterministic ==
    (prev # None /\ call # None /\ SameArguments(Unwrap(prev), Unwrap(call)))
    => Unwrap(prev).score = Unwrap(call).score

\* candidate `hi` is candidate `lo` with a strictly higher rating and a
\* strictly higher vote count
HigherQuality(lo, hi) ==
    /\ lo.average_rating # None /\ hi.average_rating # None
    /\ lo.num_votes # None /\ hi.num_votes # None
    /\ Unwrap(hi.average_rating) > Unwrap(lo.average_rating)
    /\ Unwrap(hi.num_votes) > Unwrap(lo.num_votes)
    /\ hi = WithQuality(lo, hi.average_rating, hi.num_votes)

\* C10: for the same base score and query, a candidate that differs from
\* another only by a strictly higher rating and a strictly higher vote
\* count gets a strictly higher score.  Stated for the positive base
\* scores, where the final product does not collapse to 0.
C10_Monotone ==
    (/\ prev # None /\ call # None
     /\ Unwrap(prev).base_score > 0
     /\ Unwrap(prev).base_score = Unwrap(call).base_score
     /\ Unwrap(prev).query_lower = Unwrap(call).query_lower
     /\ Unwrap(prev).at = Unwrap(call).at
     /\ HigherQuality(Unwrap(prev).result, Unwrap(call).result))
    => Unwrap(call).score > Unwrap(prev).score

First == Unwrap(prev)
Second == Unwrap(call)
Scored == prev # None /\ call # None

\* the match class of a recorded call's title for its query
ClassOf(c) == MatchClassOf(c.result, c.query_lower)

\* candidate `a` has at least the rating and the vote count of `b`
QualityAtLeast(a, b) ==
    /\ b.average_rating # None =>
          /\ a.average_rating # None
          /\ Unwrap(a.average_rating) >= Unwrap(b.average_rating)
    /\ b.num_votes # None =>
          /\ a.num_votes # None
          /\ Unwrap(a.num_votes) >= Unwrap(b.num_votes)

\* the first call is an exact title match with the lower raw score, the
\* second a word, prefix or substring match of the same query
ExactAgainstPartial ==
    /\ Scored
    /\ First.query_lower = Second.query_lower
    /\ ClassOf(First) \in {"exact_short", "exact_long"}
    /\ ClassOf(Second) \in {"word", "prefix", "substring"}
    /\ 0 <= First.base_score
    /\ First.base_score < Second.base_score
    /\ Second.base_score <= 50000
    /\ QualityAtLeast(First.result, Second.result)

\* C11: an exact title match outranks a word, prefix or substring match of
\* the same query that has the higher raw lexical score (0 <= b_exact <
\* b_partial <= 5.0), when the exact candidate's rating and vote count are
\* at least the partial candidate's.
C11_ExactOutranksPartial ==
    ExactAgainstPartial => First.score > Second.score

\* "Up" (8.3, 1,201,529 votes) at raw score 0.75 against "No Way Up"
\* (4.6, 11,321 votes) at raw score 5.0, for the query "up"
C11_Witness ==
    /\ ExactAgainstPartial
    /\ First.base_score = 7500 /\ Second.base_score = 50000
    /\ First.query_lower = Some(UP)
    /\ First.result = document_to_title_result(TitleCorpus[1])
    /\ Second.result = document_to_title_result(TitleCorpus[2])
    /\ First.score > 5 * Second.score

\* the vote counts below which the final multiplier is scaled down
VoteThresholds == {50, 500, 2000}

\* the first call's candidate is below the vote threshold `t` (or has no
\* rating and no votes at all), the second is the same candidate with a
\* vote count of at least `t`; same positive base score and query
ColdAgainstWarm(t) ==
    /\ Scored
    /\ First.query_lower = Second.query_lower
    /\ First.base_score = Second.base_score
    /\ First.base_score > 0
    /\ UnwrapOr(First.result.num_votes, 0) < t
    /\ Second.result.num_votes # None
    /\ Unwrap(Second.result.num_votes) >= t
    /\ Second.result = WithQuality(First.result, Second.result.average_rating,
                                   Second.result.num_votes)
    /\ First.result.average_rating # None =>
          Second.result.average_rating = First.result.average_rating

CommittedTitles == { disk.titles.committed[a] : a \in 1..Len(disk.titles.committed) }
CommittedNames == { disk.names.committed[a] : a \in 1..Len(disk.names.committed) }

\* a column value that counts as absent
AbsentText(text) == text = None \/ Unwrap(text) = <<>> \/ Unwrap(text) = NULL

\* C13: no document of a built index stands for a row whose id column or
\* primary-name column is absent, empty or the null token: every indexed
\* document has a non-empty id and a non-empty primary display name.
C13_NoDocWithoutIdOrName ==
    /\ \A d \in CommittedTitles :
          /\ d.tconst \notin {"", "\\N"}
          /\ ~AbsentText(Some(d.primary_title))
    /\ \A d \in CommittedNames :
          /\ d.nconst \notin {"", "\\N"}
          /\ ~AbsentText(Some(d.primary_name))

\* C14: no two documents of one built index share an id, also when the
\* primary file repeats an id in several rows.
C14_IdsUnique ==
    /\ \A a, b \in 1..Len(disk.titles.committed) :
          (/\ a # b
           /\ ~AbsentText(Some(disk.titles.committed[a].primary_title))
           /\ ~AbsentText(Some(disk.titles.committed[b].primary_title)))
          => disk.titles.committed[a].tconst # disk.titles.committed[b].tconst
    /\ \A a, b \in 1..Len(disk.names.committed) :
          (/\ a # b
           /\ ~AbsentText(Some(disk.names.committed[a].primary_name))
           /\ ~AbsentText(Some(disk.names.committed[b].primary_name)))
          => disk.names.committed[a].nconst # disk.names.committed[b].nconst

\* the decimal notation of a natural number
RECURSIVE FormatNat(_)
FormatNat(n) ==
    IF n < 10 THEN <<ToString(n)>>
    ELSE Append(FormatNat(n \div 10), ToString(n % 10))

\* the decimal notation of a rating in tenths
FormatTenths(v) == FormatNat(v \div 10) \o <<".">> \o <<ToString(v % 10)>>

\* the text is a plain decimal numeral
PlainNumeral(text) ==
    /\ ~AbsentText(text)
    /\ \A i \in 1..Len(Unwrap(text)) : Unwrap(text)[i] \in DIGITS

PlainDecimal(text) ==
    /\ ~AbsentText(text)
    /\ \E v \in 0..100 : Unwrap(text) = FormatTenths(v)

\* the stored integer field is the number the source text denotes, and is
\* absent when the text is no numeral
IntegerFromSource(field, text) ==
    IF PlainNumeral(text)
    THEN field # None /\ FormatNat(Unwrap(field)) = Unwrap(text)
    ELSE field = None

RowsOf(rows) == { rows[i] : i \in 1..Len(rows) }

\* the ratings rows of an id that carry a rating and a vote count
NumericRatings(tconst) ==
    { r \in RowsOf(source.ratings) :
        r.tconst = Some(tconst) /\ PlainDecimal(r.rating) /\ PlainNumeral(r.votes) }

\* C15: in every built document each numeric field (title start year,
\* rating, vote count; person birth and death year) is either absent or
\* the number its source value denotes; a source value that is the null
\* token, empty or not numeric leaves the field absent, never 0.
C15_NumericFieldsFromSource ==
    /\ \A d \in CommittedTitles :
          /\ \E r \in RowsOf(source.basics) :
                /\ r.tconst = Some(d.tconst)
                /\ r.primary_title = Some(d.primary_title)
                /\ IntegerFromSource(d.start_year, r.start_year)
          /\ IF NumericRatings(d.tconst) = {}
             THEN d.average_rating = None /\ d.num_votes = None
             ELSE \E r \in NumericRatings(d.tconst) :
                     /\ d.average_rating # None /\ d.num_votes # None
                     /\ FormatTenths(Unwrap(d.average_rating)) = Unwrap(r.rating)
                     /\ FormatNat(Unwrap(d.num_votes)) = Unwrap(r.votes)
    /\ \A d \in CommittedNames :
          \E r \in RowsOf(source.names) :
             /\ r.nconst = Some(d.nconst)
             /\ r.primary_name = Some(d.primary_name)
             /\ IntegerFromSource(d.birth_year, r.birth_year)
             /\ IntegerFromSource(d.death_year, r.death_year)

\* a rated title with a start year and a person whose birth year is not
\* numeric and whose death year is empty were built
C15_Witness ==
    /\ \E d \in CommittedTitles :
          d.start_year = Some(2009) /\ d.average_rating = Some(83)
    /\ \E d \in CommittedNames :
          /\ d.birth_year = None /\ d.death_year = None
          /\ \E r \in RowsOf(source.names) :
                r.nconst = Some(d.nconst) /\ r.birth_year = Some(<<"1","9","x">>)

\* a source column as the fetched record should show it
PopulatedText(text) == IF AbsentText(text) THEN None ELSE text

\* a comma-separated source column as the fetched record should show it
ListedValues(text) ==
    IF AbsentText(text) THEN None
    ELSE LET listed == SelectSeq(SplitOnComma(Unwrap(text), 1, <<>>),
                                 LAMBDA v : v # <<>> /\ v # NULL)
         IN  IF listed = <<>> THEN None ELSE Some(listed)

\* the id stands in exactly one row, and that row has a primary name
SoleProperRow(rows, key, name, id) ==
    /\ Cardinality({ i \in 1..Len(rows) : rows[i][key] = Some(id) }) = 1
    /\ \A i \in 1..Len(rows) :
          rows[i][key] = Some(id) => ~AbsentText(rows[i][name])

Fetched == Resp.results[1]

\* C16: a document built from a source row and then fetched by id shows
\* every populated source field exactly as the source has it, and shows a
\* field the source leaves out as absent.  Stated for ids that stand in one
\* row with a primary name; the end year is left out of the comparison.
C16_RoundTrip ==
    /\ (Serving("get_title_by_id") /\ Resp.status = 200 /\ source # NoSource
        /\ SoleProperRow(source.basics, "tconst", "primary_title", Params.id))
       => \E r \in RowsOf(source.basics) :
             /\ r.tconst = Some(Params.id)
             /\ Fetched.tconst = Params.id
             /\ Some(Fetched.primary_title) = r.primary_title
             /\ Fetched.original_title = PopulatedText(r.original_title)
             /\ Fetched.title_type =
                   (IF r.title_type = None \/ Unwrap(r.title_type) \in {"", "\\N"}
                    THEN None ELSE r.title_type)
             /\ IntegerFromSource(Fetched.start_year, r.start_year)
             /\ Fetched.genres = ListedValues(r.genres)
             /\ IF NumericRatings(Params.id) = {}
                THEN Fetched.average_rating = None /\ Fetched.num_votes = None
                ELSE \E e \in NumericRatings(Params.id) :
                        /\ Fetched.average_rating # None /\ Fetched.num_votes # None
                        /\ FormatTenths(Unwrap(Fetched.average_rating)) = Unwrap(e.rating)
                        /\ FormatNat(Unwrap(Fetched.num_votes)) = Unwrap(e.votes)
    /\ (Serving("get_name_by_id") /\ Resp.status = 200 /\ source # NoSource
        /\ SoleProperRow(source.names, "nconst", "primary_name", Params.id))
       => \E r \in RowsOf(source.names) :
             /\ r.nconst = Some(Params.id)
             /\ Fetched.nconst = Params.id
             /\ Some(Fetched.primary_name) = r.primary_name
             /\ IntegerFromSource(Fetched.birth_year, r.birth_year)
             /\ IntegerFromSource(Fetched.death_year, r.death_year)
             /\ Fetched.primary_profession = ListedValues(r.primary_profession)
             /\ Fetched.known_for_titles = ListedValues(r.known_for_titles)

\* the documents a build of the whole source commits
CompleteIndex(target) ==
    IF target = "titles"
    THEN AddedTitleDocs(source.basics,
             load_ratings_map(source.ratings, Len(source.ratings)), 1)
    ELSE AddedNameDocs(source.names, 1)

\* C17: a rebuild is atomic.  The index a startup is about to open, found
\* by its marker or just built, is the complete committed index of the
\* source, never an empty or partial one left behind by a build that did
\* not finish.
C17_OpenedIndexIsComplete ==
    At("open") => disk[boot.target].committed = CompleteIndex(boot.target)

\* the request of worker w served in one step on the searcher it took
OnItsSnapshot(w) ==
    search_titles(Unwrap(inflight[w].searcher), inflight[w].params)

\* C18: a request takes one searcher when it starts and uses it for the
\* query and for every document it fetches: its hits and its results are
\* those of the index as it was at that moment, whatever the reader
\* reloads while the request is in flight.
C18_OneSnapshotPerRequest ==
    \A w \in Workers :
       inflight[w].pc # "idle" =>
          /\ inflight[w].acquired = 1
          /\ inflight[w].pc \in {"fetch", "done"} =>
                /\ inflight[w].hits = OnItsSnapshot(w).trace.hits
                /\ \A k \in 1..Len(inflight[w].results) :
                      \E a \in 1..Len(inflight[w].hits) :
                         inflight[w].results[k].tconst =
                            Unwrap(inflight[w].searcher)[inflight[w].hits[a][2]].tconst
          /\ inflight[w].pc = "done" =>
                inflight[w].results = OnItsSnapshot(w).response.results

\* a request has finished with results that the reader's current index,
\* reloaded while the request was in flight, would not give
C18_Witness ==
    \E w \in Workers :
       /\ inflight[w].pc = "done"
       /\ inflight[w].results # <<>>
       /\ Unwrap(inflight[w].searcher) # titleDocs
       /\ inflight[w].results #
             search_titles(titleDocs, inflight[w].params).response.results

\* an engine call of the request in flight failed: the search, or the
\* fetch of a hit's document
EngineFailed ==
    /\ request # None
    /\ trace.searches = 1
    /\ \/ Params.fault = "search"
       \/ Params.fault = "doc" /\ trace.hits # <<>>

\* the free text of the search in flight, trimmed
FreeText ==
    IF Serving("search_titles") THEN Trim(UnwrapOr(Params.query, <<>>))
    ELSE IF Serving("search_names") THEN Trim(Params.query)
    ELSE <<>>

\* the process serves and both indexes are as they were opened
ServiceIntact ==
    /\ boot = Opened
    /\ titleDocs = TitleCorpus /\ nameDocs = NameCorpus
    /\ disk.titles.committed = TitleCorpus /\ disk.names.committed = NameCorpus

\* C19: a failed engine or storage call is answered with status 500 and
\* the fixed message "internal server error", without the error's text;
\* free text the query parser rejects is answered with status 400 and a
\* message that names the invalid query; in both cases the process keeps
\* serving and the indexes are unchanged.
C19_FailuresAnswered ==
    /\ EngineFailed =>
          /\ Resp.status = 500
          /\ Resp.message = "internal server error"
          /\ Resp.results = <<>>
          /\ ServiceIntact
    /\ (request # None /\ FreeText \in UnparsableTexts) =>
          /\ Resp.status = 400
          /\ Resp.message = "invalid query"
          /\ trace.searches = 0
          /\ ServiceIntact

\* the fetch of a hit's document failed in a title search with free text
C19_Witness ==
    /\ Serving("search_titles")
    /\ Params.fault = "doc"
    /\ Params.query = Some(<<"U","p">>)
    /\ trace.hits # <<>>
    /\ Resp.status = 500

\* the ids of the results of the search in flight
ReturnedIds ==
    { IF Serving("search_titles") THEN Resp.results[k].tconst
      ELSE Resp.results[k].nconst : k \in 1..Len(Resp.results) }

\* the ids of the indexed documents that satisfy every composed clause
SatisfyingIds ==
    IF Serving("search_titles")
    THEN { titleDocs[a].tconst : a \in MatchingDocs(titleDocs, Composed) }
    ELSE { nameDocs[a].nconst : a \in MatchingDocs(nameDocs, Composed) }

\* the text is a word of the name, letter case aside
NamesWord(text, name) ==
    ToLowercase(Trim(text)) \in TermsOfValues(<<name>>, 1)

\* the text is not empty and the name starts with it, letter case aside
IsNamePrefix(text, name) ==
    /\ Trim(text) # <<>>
    /\ StartsWith(ToLowercase(name), ToLowercase(Trim(text)))

\* C20: on the one-document indexes a search returns exactly the
\* documents that satisfy every clause of the composed query; a title
\* search whose text names the title returns that one title, and a person
\* search whose text is a prefix of the person's name, with a birth-year
\* minimum below the birth year and with the person's profession, returns
\* that one person.
C20_OneDocumentSearch ==
    /\ ((Serving("search_titles") \/ Serving("search_names")) /\ Answered)
       => /\ ReturnedIds = SatisfyingIds
          /\ Len(Resp.results) = Cardinality(SatisfyingIds)
    /\ (/\ Serving("search_titles")
        /\ Len(titleDocs) = 1
        /\ Params.title_type \in {None, Some(titleDocs[1].title_type)}
        /\ NamesWord(Unwrap(Params.query), titleDocs[1].primary_title))
       => /\ Resp.status = 200
          /\ Len(Resp.results) = 1
          /\ Resp.results[1].tconst = titleDocs[1].tconst
    /\ (/\ Serving("search_names")
        /\ Len(nameDocs) = 1
        /\ IsNamePrefix(Params.query, nameDocs[1].primary_name)
        /\ Params.birth_year_min # None
        /\ Unwrap(Params.birth_year_min) < Unwrap(nameDocs[1].birth_year)
        /\ Params.primary_profession = nameDocs[1].primary_profession)
       => /\ Resp.status = 200
          /\ Len(Resp.results) = 1
          /\ Resp.results[1].nconst = nameDocs[1].nconst

\* the number of times the text stands in the sequence
Occurrences(texts, text) == Cardinality({ k \in 1..Len(texts) : texts[k] = text })

\* the alternate titles of a title id in title.akas
AkasInSource(tconst) ==
    { Unwrap(r.title) : r \in { x \in RowsOf(source.akas) :
                                  x.title_id = Some(tconst) /\ ~AbsentText(x.title) } }

\* C21: in every built title document the alias field holds the primary
\* title, holds the original title only when it is present and differs
\* from the primary title, and holds each alternate title of the document
\* at most once and only when no equal value (letter case counts) is in
\* the field already: no title string stands in the field twice.
C21_AliasesWithoutRepeats ==
    \A k \in 1..Len(startup.search_titles) :
       LET entry == startup.search_titles[k]
       IN  /\ Occurrences(entry.titles, entry.primary_title) = 1
           /\ \A t \in AkasInSource(entry.tconst) : Occurrences(entry.titles, t) = 1
           /\ \A j \in 1..Len(entry.titles) :
                 \/ entry.titles[j] = entry.primary_title
                 \/ Some(entry.titles[j]) = entry.original_title
                 \/ entry.titles[j] \in AkasInSource(entry.tconst)

\* the display name the name table gives a person id: that of the last
\* row of name.basics with this id and a name
ResolvedName(nconst) ==
    LET named == { i \in 1..Len(source.names) :
                     /\ source.names[i].nconst = Some(nconst)
                     /\ source.names[i].primary_name # None
                     /\ source.names[i].primary_name # Some(<<>>) }
    IN  IF named = {} THEN None
        ELSE source.names[CHOOSE i \in named : \A j \in named : j <= i].primary_name

ValidId(id) == id # None /\ Unwrap(id) \notin {"", "\\N"}

\* the display names the principals rows of a title resolve to
CreditedNames(tconst) ==
    { Unwrap(ResolvedName(Unwrap(r.nconst))) :
        r \in { x \in RowsOf(source.principals) :
                  /\ x.tconst = Some(tconst)
                  /\ ValidId(x.tconst) /\ ValidId(x.nconst)
                  /\ ResolvedName(Unwrap(x.nconst)) # None } }

PrincipalsLoaded == startup.pc \notin {"main", "principals", "failed"}

\* C22: the principals table holds a display name under a title id
\* exactly when some principals row has that title id and a person id,
\* both valid, and the name table resolves the person id to that name;
\* no name stands twice under one title, and a title without such a row
\* has no entry.
C22_PrincipalNames ==
    PrincipalsLoaded =>
       /\ \A e \in startup.principals_map :
             /\ ValidId(Some(e[1]))
             /\ e[2] # <<>>
             /\ { e[2][k] : k \in 1..Len(e[2]) } = CreditedNames(e[1])
             /\ \A j, k \in 1..Len(e[2]) : j # k => e[2][j] # e[2][k]
       /\ \A r \in RowsOf(source.principals) :
             (r.tconst # None /\ CreditedNames(Unwrap(r.tconst)) # {})
             => Lookup(startup.principals_map, Unwrap(r.tconst)) # None
       /\ \A e, f \in startup.principals_map : e[1] = f[1] => e = f

\* two persons of one display name are credited on a title next to a
\* person the name table does not hold, and the title has the name once
C22_Witness ==
    /\ PrincipalsLoaded
    /\ \E i, j, k \in 1..Len(source.principals) :
          /\ source.principals[i].nconst = Some("nm1")
          /\ source.principals[j].nconst = Some("nm2")
          /\ source.principals[k].nconst = Some("nm3")
          /\ source.principals[i].tconst = Some("tt1")
          /\ source.principals[j].tconst = Some("tt1")
    /\ Lookup(startup.principals_map, "tt1") = Some(<<KEANU>>)

\* the rows of a file that have all of the columns
WithColumns(rows, columns) ==
    SelectSeq(rows, LAMBDA r : \A c \in columns : r[c] # None)

Past(stages) == startup.pc \notin stages \cup {"failed"}

\* C23: a row with too few columns is skipped and the rows after it are
\* still processed, in every lookup and in both document loops: each
\* result is the one the file gives without its short rows.  A file that
\* cannot be opened ends the startup with an error that names the file,
\* and no index handle is returned.
C23_ShortRowsAndUnreadableFiles ==
    /\ Past({"main"}) =>
          LET rows == WithColumns(source.names, {"nconst", "primary_name"})
          IN  startup.name_lookup = load_name_map(rows, Len(rows))
    /\ Past({"main", "principals"}) =>
          LET rows == WithColumns(source.principals, {"tconst", "nconst"})
          IN  startup.principals_map =
                 load_principals_map(rows, startup.name_lookup, Len(rows))
    /\ (Past({"main", "principals", "title_marker", "ratings"})
        /\ "titles" \in startup.built) =>
          LET rows == WithColumns(source.ratings, {"tconst", "rating", "votes"})
          IN  startup.ratings_map = load_ratings_map(rows, Len(rows))
    /\ (Past({"main", "principals", "title_marker", "ratings", "akas"})
        /\ "titles" \in startup.built) =>
          LET rows == WithColumns(source.akas, {"title_id", "title"})
          IN  startup.aka_map = load_aka_map(rows, Len(rows))
    /\ (Past({"main", "principals", "title_marker", "ratings", "akas", "basics"})
        /\ "titles" \in startup.built) =>
          disk.titles.committed =
             AddedTitleDocs(WithColumns(source.basics, {"tconst", "primary_title"}),
                            startup.ratings_map, 1)
    /\ (startup.pc \in {"name_open", "ready"} /\ "names" \in startup.built) =>
          disk.names.committed =
             AddedNameDocs(WithColumns(source.names, {"nconst", "primary_name"}), 1)
    /\ startup.pc # "failed" => startup.read \cap source.unreadable = {}
    /\ startup.pc = "failed" =>
          /\ startup.error \in source.unreadable
          /\ startup.error \notin startup.read
          /\ boot # Opened
          /\ nameDocs = <<>>

\* the ratings row after a short row was loaded, and the startup then
\* failed on title.basics
C23_Witness ==
    /\ startup.pc = "failed"
    /\ startup.error = "title.basics"
    /\ source.ratings[1].votes = None
    /\ Lookup(startup.ratings_map, "tt1") # None

\* C29: when both marker files exist and nothing was rebuilt, the startup
\* has read no source dataset file and has not failed, whichever source
\* files are missing.
C29_ReuseReadsNoSource ==
    (disk.titles.marker /\ disk.names.marker /\ startup.built = {}) =>
       /\ startup.read = {}
       /\ startup.pc # "failed"

\* the year the recency tilt is taken from: the current year for a series
\* without end year, else the end year, else the start year, else none
ChosenYear(result) ==
    IF result.title_type # None /\ Unwrap(result.title_type) \in SERIES_TYPES
       /\ result.end_year = None
    THEN Some(now)
    ELSE IF result.end_year # None THEN result.end_year
    ELSE result.start_year

HasQuality(record, rating, votes) ==
    /\ record.result.average_rating = Some(rating)
    /\ record.result.num_votes = Some(votes)

Haystack(record) == ToLowercase(record.result.primary_title)
Needle(record) == ToLowercase(Trim(Unwrap(record.query_lower)))

HasNeedle(record) ==
    /\ record.query_lower # None
    /\ Needle(record) # <<>>

IsWholeWord(h, n) ==
    \E k \in 1..Len(SplitWords(h)) : SplitWords(h)[k] = n

\* the class the priority list gives: exact, whole word (needles of at
\* most 3 characters), prefix, substring (longer needles), none
ClassByPriority(h, n) ==
    IF h = n THEN "exact"
    ELSE IF Len(n) <= 3 /\ IsWholeWord(h, n) THEN "word"
    ELSE IF StartsWith(h, n) THEN "prefix"
    ELSE IF Len(n) > 3 /\ Contains(h, n) THEN "substring"
    ELSE "none"

Family(class) ==
    CASE class \in {"exact_short", "exact_long"} -> "exact"
      [] class \in {"short_miss", "miss"}        -> "none"
      [] OTHER                                   -> class

\* C25: for a non-empty query a scored candidate has the one title-match
\* class the priority exact, whole word (queries of at most 3 characters),
\* prefix, substring, none gives it; the bonuses are ordered exact >
\* whole word > prefix > substring > 0, the exact bonus of a short query
\* is larger than that of a long one, and a query of at most 3 characters
\* that is only a bare substring of the title gets a negative bonus.
C25_TitleMatchClasses ==
    (call # None /\ HasNeedle(Unwrap(call))) =>
       LET h == Haystack(Unwrap(call))
           n == Needle(Unwrap(call))
           class == MatchClassOf(Unwrap(call).result, Unwrap(call).query_lower)
       IN  /\ Family(class) = ClassByPriority(h, n)
           /\ class = "exact_short" <=> (h = n /\ Len(n) <= 3)
           /\ TitleBonus("exact_short") > TitleBonus("exact_long")
           /\ TitleBonus("exact_long") > TitleBonus("word")
           /\ TitleBonus("word") > TitleBonus("prefix")
           /\ TitleBonus("prefix") > TitleBonus("substring")
           /\ TitleBonus("substring") > 0
           /\ (Len(n) <= 3 /\ Contains(h, n) /\ h # n /\ ~IsWholeWord(h, n)
               /\ ~StartsWith(h, n)) => TitleBonus(class) < 0

\* "Cup" scored for the query " up ": a bare substring of a short query
C25_Witness ==
    /\ call # None
    /\ Unwrap(call).result.primary_title = <<"C","u","p">>
    /\ Unwrap(call).query_lower = Some(<<" ","u","p"," ">>)
    /\ MatchClassOf(Unwrap(call).result, Unwrap(call).query_lower) = "short_miss"
    /\ prev # None
    /\ Unwrap(prev).query_lower = Some(START)
    /\ MatchClassOf(Unwrap(prev).result, Unwrap(prev).query_lower) = "substring"

\* the tconst of the document behind the engine's i-th hit
HitId(i) == titleDocs[trace.hits[i][2]].tconst

\* C26: in relevance mode the results are in non-increasing order of the
\* final score each of them carries; in the field-sort modes the results
\* are the engine's hits in the engine's order, with no score to sort by.
C26_OrderOfResults ==
    (Serving("search_titles") /\ Answered) =>
       IF UnwrapOr(Params.sort, "relevance") = "relevance"
       THEN \A i \in 1..Len(Resp.results), j \in 1..Len(Resp.results) :
               i < j => /\ Resp.results[i].score # None
                        /\ Resp.results[j].score # None
                        /\ Unwrap(Resp.results[i].score)
                              >= Unwrap(Resp.results[j].score)
       ELSE /\ Len(Resp.results) = Len(trace.hits)
            /\ \A i \in 1..Len(Resp.results) :
                  /\ Resp.results[i].tconst = HitId(i)
                  /\ Resp.results[i].score = None
                  /\ Resp.results[i].sort_value = Some(trace.hits[i][1])

\* a relevance response whose first result is not the engine's first hit
C26_Witness ==
    /\ Serving("search_titles")
    /\ Answered
    /\ Params.sort = None
    /\ Len(Resp.results) >= 2
    /\ Resp.results[1].tconst # HitId(1)
    /\ Unwrap(Resp.results[1].score) > Unwrap(Resp.results[2].score)

\* C27: a person search that passes the 'query or at least one filter'
\* check and reaches the engine runs a query with at least one required
\* clause, never the match-everything query.
C27_NeverMatchAll ==
    (Serving("search_names") /\ trace.searches > 0) =>
       /\ Composed.kind # "all"
       /\ Len(Composed.must) >= 1

\* C28: every document returned by a title search has a stored start year
\* that is at least the caller's start_year_min, or 1980 without one, and
\* at most the caller's start_year_max when there is one.
C28_StartYearOfResults ==
    (Serving("search_titles") /\ Answered) =>
       \A i \in 1..Len(Resp.results) :
          /\ Resp.results[i].start_year # None
          /\ Unwrap(Resp.results[i].start_year)
                >= UnwrapOr(Params.start_year_min, DEFAULT_YEAR_MIN)
          /\ Params.start_year_max # None =>
                Unwrap(Resp.results[i].start_year) <= Unwrap(Params.start_year_max)

IsExactMatch(record) ==
    MatchClassOf(record.result, record.query_lower) \in {"exact_short", "exact_long"}

\* C30: for every raw base score, candidate and query the score is >= 0,
\* and it is 0 exactly when the raw base score is <= 0 and the title is
\* not an exact match of the query.
C30_ZeroOnlyWithoutBase ==
    call # None =>
       /\ Unwrap(call).score >= 0
       /\ Unwrap(call).zero <=>
             (Unwrap(call).base_score.sig <= 0 /\ ~IsExactMatch(Unwrap(call)))

====
